---- MODULE Spec2Model ----
(***************************************************************************)
(* Billing subsystem of quantica-lang (src/src/billing): the credential    *)
(* manager (api_keys.rs), the payment processor registry (providers.rs),   *)
(* the lock-protected, file-backed store (store.rs) and the orchestrating  *)
(* service (service.rs), with caller threads running service operations    *)
(* concurrently.                                                           *)
(*                                                                         *)
(* Strings are sequences of one-character strings, bytes are 0..255, an    *)
(* Option is a sequence of length 0 (None) or 1 (Some), a HashMap is a     *)
(* function from its keys, a Vec is a sequence.                            *)
(***************************************************************************)
EXTENDS Integers, Sequences, FiniteSets, TLC

VARIABLES
    mem,        \* BillingStore.state: the in-memory BillingState
    file,       \* the backing file: <<>> while absent, else <<JSON document>>
    lock,       \* the RwLock: [writer |-> <<>> or <<t>>, poisoned |-> BOOLEAN]
    pc,         \* per thread: its position inside the running operation
    call,       \* per thread: the operation it runs and its arguments
    loc,        \* per thread: the locals of the running operation
    res,        \* per thread: what its last call returned
    rng,        \* draws made from OsRng so far, per purpose
    clock,      \* the last value SystemTime::now() returned
    started,    \* number of service calls started so far
    faults,     \* number of file writes that have failed
    caller,     \* the thread that started the latest call, if any has
    alone,      \* per thread: no other call naming the same payment has been in
                \* progress at any point of its call in progress
    probe       \* inputs and outputs of the credential-manager functions

vars == <<mem, file, lock, pc, call, loc, res, rng, clock, started, faults,
          caller, alone, probe>>

---------------------------------------------------------------------------
(* Bounds of the model *)

\* caller threads
NumThreads == 2
\* service calls started in one behaviour of Spec
MaxCalls == 2
\* service calls started in one behaviour of SpecKeys
MaxKeyCalls == 4
\* file writes that fail in one behaviour of SpecFaults
MaxFaults == 1
\* largest value the clock takes
MaxTime == 1
\* bytes of a raw API key (API_KEY_BYTES is 32 in the source; scaled down)
ApiKeyBytes == 5
\* bytes of a salt (SALT_BYTES is 16 in the source; scaled down)
SaltBytes == 2
\* largest usage_limit a caller passes to settle_payment
MaxLimit == 2
\* keys drawn from OsRng by the credential manager in SpecCredentials
MaxDraws == 3
\* times the store is constructed again in one behaviour of SpecReopen
MaxReopens == 1
\* characters of the longest webhook secret in SpecWebhook
MaxSecretLen == 2

Threads == 1..NumThreads
\* the threads that call the service in Spec
Callers == {1, 2}
\* the values the clock takes
Times == 0..MaxTime

---------------------------------------------------------------------------
(* Options, maps, sequences *)

None == <<>>
Some(v) == <<v>>
IsSome(o) == Len(o) = 1
Unwrap(o) == o[1]

EmptyMap == [k \in {} |-> <<>>]
MapInsert(m, k, v) == [x \in (DOMAIN m) \cup {k} |-> IF x = k THEN v ELSE m[x]]

\* String::from_iter: the text with these characters. Text that is only stored,
\* compared and joined is a string; text that is taken apart is kept as its
\* characters.
RECURSIVE Text(_)
Text(chars) == IF chars = <<>> THEN "" ELSE Head(chars) \o Text(Tail(chars))

RECURSIVE Flatten(_)
Flatten(ss) == IF ss = <<>> THEN <<>> ELSE Head(ss) \o Flatten(Tail(ss))

\* the least element of a non-empty set of numbers
Min(S) == CHOOSE x \in S : \A y \in S : x <= y

\* position of the first occurrence of x in s, 0 when there is none
FirstIndexOf(s, x) ==
    IF \E i \in 1..Len(s) : s[i] = x THEN Min({i \in 1..Len(s) : s[i] = x}) ELSE 0

\* whether the string needle occurs in the string hay
Contains(hay, needle) ==
    \E i \in 1..(Len(hay) - Len(needle) + 1) :
        SubSeq(hay, i, i + Len(needle) - 1) = needle

---------------------------------------------------------------------------
(* Characters, bytes and hexadecimal text (api_keys.rs) *)

HexLower == <<"0","1","2","3","4","5","6","7","8","9","a","b","c","d","e","f">>
HexUpper == <<"0","1","2","3","4","5","6","7","8","9","A","B","C","D","E","F">>

\* char::to_digit(16): the value of a hexadecimal digit of either case
ToDigit(c) ==
    IF \E i \in 1..16 : HexLower[i] = c
    THEN Some((CHOOSE i \in 1..16 : HexLower[i] = c) - 1)
    ELSE IF \E i \in 1..16 : HexUpper[i] = c
         THEN Some((CHOOSE i \in 1..16 : HexUpper[i] = c) - 1)
         ELSE None

\* ApiKeyManager::to_hex: format!("{:02x}"), byte by byte
to_hex(bytes) ==
    Flatten([i \in 1..Len(bytes) |->
        <<HexLower[(bytes[i] \div 16) + 1], HexLower[(bytes[i] % 16) + 1]>>])

\* format!("{:02X}"), byte by byte
to_hex_upper(bytes) ==
    Flatten([i \in 1..Len(bytes) |->
        <<HexUpper[(bytes[i] \div 16) + 1], HexUpper[(bytes[i] % 16) + 1]>>])

\* ApiKeyManager::from_hex: None on odd length or on a non-hex character
from_hex(input) ==
    IF Len(input) % 2 # 0 THEN None
    ELSE IF \E i \in 1..Len(input) : ToDigit(input[i]) = None THEN None
    ELSE Some([k \in 1..(Len(input) \div 2) |->
            (Unwrap(ToDigit(input[2 * k - 1])) * 16 + Unwrap(ToDigit(input[2 * k]))) % 256])

\* str::as_bytes on the characters the model uses (ASCII)
AsciiOf(c) ==
    CASE c = "-" -> 45
      [] c = "$" -> 36
      [] c = ":" -> 58
      [] c = "_" -> 95
      [] c \in {"0","1","2","3","4","5","6","7","8","9"} ->
            47 + (CHOOSE i \in 1..10 : HexUpper[i] = c)
      [] c \in {"A","B","C","D","E","F"} ->
            54 + (CHOOSE i \in 11..16 : HexUpper[i] = c)
      [] c \in {"a","b","c","d","e","f"} ->
            86 + (CHOOSE i \in 11..16 : HexLower[i] = c)
      [] c = "N" -> 78
      [] c = "Q" -> 81
      [] c = "T" -> 84
      [] OTHER -> 120
as_bytes(s) == [i \in 1..Len(s) |-> AsciiOf(s[i])]

\* SHA-256, abstracted: a digest of fixed length that depends on every byte of
\* the message and on their order. A SHA-256 digest is as long as a raw API key
\* (32 bytes each), and so is the model's. That no two messages the model hashes
\* share a digest is part of what the credential properties check.
DigestBytes == ApiKeyBytes
RECURSIVE Sha256Fold(_, _, _)
Sha256Fold(h, m, msg) ==
    IF msg = <<>> THEN h
    ELSE Sha256Fold((h * m + Head(msg) + 1) % 65536, m, Tail(msg))
Sha256(msg) ==
    [j \in 1..DigestBytes |-> Sha256Fold(7 + j, 29 + 2 * j, msg) % 256]

\* ApiKeyManager::hash_digest: SHA-256 over the salt followed by the key bytes
hash_digest(key, salt) == Sha256(salt \o as_bytes(key))

\* ApiKeyManager::hash_with_salt: "<hex salt>:$<hex digest>"
HashWithSaltPlain(key, salt) == to_hex(salt) \o <<":", "$">> \o key
hash_with_salt(key, salt) ==
    to_hex(salt) \o <<":", "$">> \o to_hex(hash_digest(key, salt))

\* str::trim_start_matches('$'): every leading '$' is dropped
RECURSIVE trim_start_dollar(_)
trim_start_dollar(s) ==
    IF s # <<>> /\ Head(s) = "$" THEN trim_start_dollar(Tail(s)) ELSE s

\* ApiKeyManager::split_hashed_value: Some(<<salt, digest>>) or None
split_hashed_value(encoded) ==
    LET colon == FirstIndexOf(encoded, ":")
    IN  IF colon = 0 THEN None
        ELSE LET salt == from_hex(SubSeq(encoded, 1, colon - 1))
                 digest == from_hex(trim_start_dollar(
                              SubSeq(encoded, colon + 1, Len(encoded))))
             IN  IF salt = None \/ digest = None THEN None
                 ELSE Some(<<Unwrap(salt), Unwrap(digest)>>)

\* constant_time_eq: equal lengths and no differing byte
constant_time_eq(a, b) ==
    IF Len(a) # Len(b) THEN FALSE
    ELSE \A i \in 1..Len(a) : a[i] = b[i]

\* slice::chunks(n)
RECURSIVE Chunks(_, _)
Chunks(s, n) ==
    IF s = <<>> THEN <<>>
    ELSE IF Len(s) <= n THEN <<s>>
    ELSE <<SubSeq(s, 1, n)>> \o Chunks(SubSeq(s, n + 1, Len(s)), n)

\* [String]::join("-")
RECURSIVE JoinDash(_)
JoinDash(parts) ==
    IF parts = <<>> THEN <<>>
    ELSE IF Len(parts) = 1 THEN Head(parts)
    ELSE Head(parts) \o <<"-">> \o JoinDash(Tail(parts))

\* ApiKeyManager::default().prefix
Prefix == <<"Q", "N", "T">>

\* ApiKeyManager::build_key_string: "QNT-XXXXXXXX-XXXXXXXX-..."
build_key_string(raw) ==
    Prefix \o <<"-">> \o JoinDash(Chunks(to_hex_upper(raw), 8))

---------------------------------------------------------------------------
(* Results *)

Ok(v) == [kind |-> "Ok", val |-> <<v>>]
Err(k) == [kind |-> k, val |-> <<>>]
IsOk(r) == r.kind = "Ok"
\* no call has returned to this thread yet
NoResult == [op |-> "none", kind |-> "None", val |-> <<>>]

---------------------------------------------------------------------------
(* models.rs: enums and their textual forms *)

PaymentProviderKind == {"Stripe", "Paypal", "WePay", "Bitcoin"}
PaymentStatus ==
    {"Pending", "RequiresAction", "Authorized", "Succeeded", "Refunded", "Failed",
     "Chargeback"}
ApiTier == {"Trial", "Standard", "Premium", "Enterprise"}

\* PaymentProviderKind::as_str
ProviderAsStr(k) ==
    CASE k = "Stripe" -> "stripe"
      [] k = "Paypal" -> "paypal"
      [] k = "WePay" -> "wepay"
      [] k = "Bitcoin" -> "bitcoin"

\* ApiTier::as_str
TierAsStr(t) ==
    CASE t = "Trial" -> "trial"
      [] t = "Standard" -> "standard"
      [] t = "Premium" -> "premium"
      [] t = "Enterprise" -> "enterprise"

\* BillingState::default()
EmptyState == [payments |-> <<>>, api_keys |-> <<>>]

---------------------------------------------------------------------------
(* OsRng and SystemTime *)

\* The n-th draw of each kind. Draws never repeat: a collision of two 80-bit or
\* longer random values is not modelled.
RawKey(n) == [i \in 1..ApiKeyBytes |-> (n * 53 + i * 17) % 256]
SaltOf(n) == [i \in 1..SaltBytes |-> (n * 29 + i * 7 + 100) % 256]
IdBytes(n) == <<n % 256>>

\* what SystemTime::now() may return next: the clock does not run backwards
Nows == {n \in Times : n \in {clock, clock + 1}}

---------------------------------------------------------------------------
(* api_keys.rs: ApiKeyManager *)

\* ApiKeyManager::random_identifier: "key_<hex>"
random_identifier(n) == "key_" \o Text(to_hex(IdBytes(n)))

\* ApiKeyManager::issue_key, on the n-th draw from OsRng at time now
IssueKeyRevoked(user_id, payment_id, tier, usage_limit, n, now) ==
    LET api_key == build_key_string(RawKey(n))
    IN  [api_key |-> api_key,
         record |-> [id |-> random_identifier(n),
                     hashed_key |-> hash_with_salt(api_key, SaltOf(n)),
                     user_id |-> user_id,
                     payment_id |-> payment_id,
                     tier |-> tier,
                     created_at |-> now,
                     revoked |-> TRUE,
                     usage_limit |-> usage_limit,
                     usage_count |-> 0,
                     last_used_at |-> None]]
issue_key(user_id, payment_id, tier, usage_limit, n, now) ==
    LET api_key == build_key_string(RawKey(n))
    IN  [api_key |-> api_key,
         record |-> [id |-> random_identifier(n),
                     hashed_key |-> hash_with_salt(api_key, SaltOf(n)),
                     user_id |-> user_id,
                     payment_id |-> payment_id,
                     tier |-> tier,
                     created_at |-> now,
                     revoked |-> FALSE,
                     usage_limit |-> usage_limit,
                     usage_count |-> 0,
                     last_used_at |-> None]]

\* ApiKeyManager::verify
verify(candidate, record) ==
    IF record.revoked THEN FALSE
    ELSE LET split == split_hashed_value(record.hashed_key)
         IN  IF split = None THEN FALSE
             ELSE constant_time_eq(hash_digest(candidate, Unwrap(split)[1]),
                                   Unwrap(split)[2])

\* u64::saturating_add(1); the model never counts near u64::MAX
SaturatingAdd1(n) == n + 1

\* ApiKeyManager::mark_use
MarkUseFirstUse(record, now) ==
    [record EXCEPT !.usage_count = 1, !.last_used_at = Some(now)]
mark_use(record, now) ==
    [record EXCEPT !.usage_count = SaturatingAdd1(@), !.last_used_at = Some(now)]

---------------------------------------------------------------------------
(* providers.rs: HostedCheckoutProcessor and the registry *)

\* The provider configurations the service is constructed with: Stripe enabled
\* with a webhook secret, WePay enabled without one, Paypal disabled; Bitcoin is
\* not configured.
ProviderConfigs ==
    << [provider |-> "Stripe", enabled |-> TRUE, webhook_secret |-> Some("sk")],
       [provider |-> "WePay", enabled |-> TRUE, webhook_secret |-> None],
       [provider |-> "Paypal", enabled |-> FALSE, webhook_secret |-> None] >>

\* build_processor_map: a later configuration of a kind replaces an earlier one
build_processor_map(configs) ==
    [k \in {configs[i].provider : i \in 1..Len(configs)} |->
        configs[CHOOSE i \in 1..Len(configs) :
            /\ configs[i].provider = k
            /\ \A j \in (i + 1)..Len(configs) : configs[j].provider # k]]

\* BillingService.processors
processors == build_processor_map(ProviderConfigs)

\* u8 ^ u8 and u8 | u8, bit by bit
RECURSIVE BitXor(_, _)
BitXor(x, y) ==
    IF x = 0 /\ y = 0 THEN 0
    ELSE ((x + y) % 2) + 2 * BitXor(x \div 2, y \div 2)
RECURSIVE BitOr(_, _)
BitOr(x, y) ==
    IF x = 0 /\ y = 0 THEN 0
    ELSE (IF x % 2 = 1 \/ y % 2 = 1 THEN 1 ELSE 0) + 2 * BitOr(x \div 2, y \div 2)

\* secure_compare's loop: diff |= x ^ y over the zipped bytes
RECURSIVE FoldDiff(_, _, _)
FoldDiff(diff, a, b) ==
    IF a = <<>> \/ b = <<>> THEN diff
    ELSE FoldDiff(BitOr(diff, BitXor(Head(a), Head(b))), Tail(a), Tail(b))

\* secure_compare
SecureCompareLengthOnly(a, b) == Len(a) = Len(b)
secure_compare(a, b) ==
    IF Len(a) # Len(b) THEN FALSE
    ELSE FoldDiff(0, a, b) = 0

\* HostedCheckoutProcessor::validate_webhook_signature
validate_webhook_signature(config, signature, payload) ==
    IF IsSome(config.webhook_secret)
    THEN secure_compare(as_bytes(signature), as_bytes(Unwrap(config.webhook_secret)))
            /\ payload # <<>>
    ELSE TRUE

\* HostedCheckoutProcessor::create_reference: "<provider>_<HEX>"
create_reference(config, n) ==
    ProviderAsStr(config.provider) \o "_" \o Text(to_hex_upper(IdBytes(n)))

\* HostedCheckoutProcessor::create_payment_intent, on the n-th draw from OsRng
CreatePaymentIntentNoAmountCheck(config, request, n) ==
    IF ~config.enabled THEN Err("ProviderUnavailable")
    ELSE Ok([id |-> create_reference(config, n),
             provider |-> config.provider,
             status |-> "Pending",
             amount_cents |-> request.amount_cents,
             currency |-> request.currency,
             metadata |-> MapInsert(MapInsert(request.metadata, "user_id", request.user_id),
                                    "tier", TierAsStr(request.tier))])
CreatePaymentIntentAmountFirst(config, request, n) ==
    IF request.amount_cents = 0 THEN Err("Validation")
    ELSE IF ~config.enabled THEN Err("ProviderUnavailable")
    ELSE Ok([id |-> create_reference(config, n),
             provider |-> config.provider,
             status |-> "Pending",
             amount_cents |-> request.amount_cents,
             currency |-> request.currency,
             metadata |-> MapInsert(MapInsert(request.metadata, "user_id", request.user_id),
                                    "tier", TierAsStr(request.tier))])
create_payment_intent(config, request, n) ==
    IF ~config.enabled THEN Err("ProviderUnavailable")
    ELSE IF request.amount_cents = 0 THEN Err("Validation")
    ELSE Ok([id |-> create_reference(config, n),
             provider |-> config.provider,
             status |-> "Pending",
             amount_cents |-> request.amount_cents,
             currency |-> request.currency,
             metadata |-> MapInsert(MapInsert(request.metadata, "user_id", request.user_id),
                                    "tier", TierAsStr(request.tier))])

---------------------------------------------------------------------------
(* store.rs: the mutators BillingStore hands to write, as functions of the   *)
(* state. Each yields the state the mutator leaves and what it returns.      *)

\* Iterator::find(|item| item.id == id): the position of the first record with
\* that id, 0 when there is none
IndexOfId(records, id) ==
    IF \E i \in 1..Len(records) : records[i].id = id
    THEN Min({i \in 1..Len(records) : records[i].id = id})
    ELSE 0

\* BillingStore::upsert_payment's mutator
UpsertPaymentAppendOnly(state, record) ==
    [state |-> [state EXCEPT !.payments = Append(@, record)], out |-> Ok(record)]
upsert_payment(state, record) ==
    LET i == IndexOfId(state.payments, record.id)
    IN  IF i # 0
        THEN [state |-> [state EXCEPT !.payments[i] = record], out |-> Ok(record)]
        ELSE [state |-> [state EXCEPT !.payments = Append(@, record)], out |-> Ok(record)]

\* BillingStore::upsert_api_key's mutator
UpsertApiKeyAppendOnly(state, record) ==
    [state |-> [state EXCEPT !.api_keys = Append(@, record)], out |-> Ok(record)]
upsert_api_key(state, record) ==
    LET i == IndexOfId(state.api_keys, record.id)
    IN  IF i # 0
        THEN [state |-> [state EXCEPT !.api_keys[i] = record], out |-> Ok(record)]
        ELSE [state |-> [state EXCEPT !.api_keys = Append(@, record)], out |-> Ok(record)]

---------------------------------------------------------------------------
(* service.rs: the closures BillingService passes to the store's update_*   *)
(* functions. Each yields [rec, out]: the record as the closure leaves it   *)
(* and the closure's result.                                                *)

\* settle_payment's updater
SettleUpdaterChecksStatus(record, reference, now) ==
    IF record.status = "Succeeded" THEN [rec |-> record, out |-> Err("Validation")]
    ELSE [rec |-> [record EXCEPT !.status = "Succeeded", !.updated_at = now,
                                 !.reference = reference],
          out |-> Ok(<<>>)]
settle_updater(record, reference, now) ==
    [rec |-> [record EXCEPT !.status = "Succeeded", !.updated_at = now,
                            !.reference = reference],
     out |-> Ok(<<>>)]

\* mark_payment_failed's updater
FailUpdaterResetsMetadata(record, reason, now) ==
    [rec |-> [record EXCEPT !.status = "Failed",
                            !.metadata = MapInsert(EmptyMap, "failure_reason", reason),
                            !.updated_at = now],
     out |-> Ok(<<>>)]
fail_updater(record, reason, now) ==
    [rec |-> [record EXCEPT !.status = "Failed",
                            !.metadata = MapInsert(@, "failure_reason", reason),
                            !.updated_at = now],
     out |-> Ok(<<>>)]

\* validate_api_key's updater
ValidateUpdaterOffByOne(record, now) ==
    IF record.revoked THEN [rec |-> record, out |-> Err("Validation")]
    ELSE IF IsSome(record.usage_limit) /\ record.usage_count > Unwrap(record.usage_limit)
    THEN [rec |-> record, out |-> Err("Validation")]
    ELSE [rec |-> mark_use(record, now), out |-> Ok(<<>>)]
ValidateUpdaterNoLimitCheck(record, now) ==
    IF record.revoked THEN [rec |-> record, out |-> Err("Validation")]
    ELSE [rec |-> mark_use(record, now), out |-> Ok(<<>>)]
ValidateUpdaterNoRevokedCheck(record, now) ==
    IF IsSome(record.usage_limit) /\ record.usage_count >= Unwrap(record.usage_limit)
    THEN [rec |-> record, out |-> Err("Validation")]
    ELSE [rec |-> mark_use(record, now), out |-> Ok(<<>>)]
ValidateUpdaterCountsRefused(record, now) ==
    IF record.revoked THEN [rec |-> record, out |-> Err("Validation")]
    ELSE IF IsSome(record.usage_limit) /\ record.usage_count >= Unwrap(record.usage_limit)
    THEN [rec |-> mark_use(record, now), out |-> Err("Validation")]
    ELSE [rec |-> mark_use(record, now), out |-> Ok(<<>>)]
validate_updater(record, now) ==
    IF record.revoked THEN [rec |-> record, out |-> Err("Validation")]
    ELSE IF IsSome(record.usage_limit) /\ record.usage_count >= Unwrap(record.usage_limit)
    THEN [rec |-> record, out |-> Err("Validation")]
    ELSE [rec |-> mark_use(record, now), out |-> Ok(<<>>)]

\* revoke_api_key's updater
RevokeUpdaterToggles(record, now) ==
    [rec |-> [record EXCEPT !.revoked = ~@, !.last_used_at = Some(now)],
     out |-> Ok(<<>>)]
revoke_updater(record, now) ==
    [rec |-> [record EXCEPT !.revoked = TRUE, !.last_used_at = Some(now)],
     out |-> Ok(<<>>)]

\* the closure named by the descriptor u, applied to a record
apply_updater(u, record) ==
    CASE u.fn = "settle" -> settle_updater(record, u.reference, u.now)
      [] u.fn = "fail" -> fail_updater(record, u.reason, u.now)
      [] u.fn = "validate" -> validate_updater(record, u.now)
      [] u.fn = "revoke" -> revoke_updater(record, u.now)

\* BillingStore::update_payment's mutator
UpdatePaymentMissingIsValidation(state, id, updater) ==
    LET i == IndexOfId(state.payments, id)
    IN  IF i = 0 THEN [state |-> state, out |-> Err("Validation")]
        ELSE LET u == apply_updater(updater, state.payments[i])
                 s == [state EXCEPT !.payments[i] = u.rec]
             IN  [state |-> s, out |-> IF IsOk(u.out) THEN Ok(u.rec) ELSE u.out]
update_payment(state, id, updater) ==
    LET i == IndexOfId(state.payments, id)
    IN  IF i = 0 THEN [state |-> state, out |-> Err("NotFound")]
        ELSE LET u == apply_updater(updater, state.payments[i])
                 s == [state EXCEPT !.payments[i] = u.rec]
             IN  [state |-> s, out |-> IF IsOk(u.out) THEN Ok(u.rec) ELSE u.out]

\* BillingStore::update_api_key's mutator
update_api_key(state, id, updater) ==
    LET i == IndexOfId(state.api_keys, id)
    IN  IF i = 0 THEN [state |-> state, out |-> Err("NotFound")]
        ELSE LET u == apply_updater(updater, state.api_keys[i])
                 s == [state EXCEPT !.api_keys[i] = u.rec]
             IN  [state |-> s, out |-> IF IsOk(u.out) THEN Ok(u.rec) ELSE u.out]

-----
(* store.rs: persist. serde_json::to_vec_pretty of the BillingState, as a    *)
(* JSON document: an object is a function from its member names, an array a  *)
(* sequence, and a scalar carries its JSON type.                             *)

JNull == <<"null">>
JStr(s) == <<"string", s>>
JNum(n) == <<"number", n>>
JBool(b) == <<"bool", b>>
JOptStr(o) == IF o = None THEN JNull ELSE JStr(Unwrap(o))
JOptNum(o) == IF o = None THEN JNull ELSE JNum(Unwrap(o))

\* #[serde(rename_all = "snake_case")] on the three enums
SnakeCase(variant) ==
    CASE variant = "Stripe" -> "stripe"
      [] variant = "Paypal" -> "paypal"
      [] variant = "WePay" -> "we_pay"
      [] variant = "Bitcoin" -> "bitcoin"
      [] variant = "Pending" -> "pending"
      [] variant = "RequiresAction" ->
            "requires_action"
      [] variant = "Authorized" -> "authorized"
      [] variant = "Succeeded" -> "succeeded"
      [] variant = "Refunded" -> "refunded"
      [] variant = "Failed" -> "failed"
      [] variant = "Chargeback" -> "chargeback"
      [] variant = "Trial" -> "trial"
      [] variant = "Standard" -> "standard"
      [] variant = "Premium" -> "premium"
      [] variant = "Enterprise" -> "enterprise"

\* Serialize for PaymentRecord
SerializePayment(p) ==
    [id |-> JStr(p.id),
     provider |-> JStr(SnakeCase(p.provider)),
     status |-> JStr(SnakeCase(p.status)),
     amount_cents |-> JNum(p.amount_cents),
     currency |-> JStr(p.currency),
     user_id |-> JStr(p.user_id),
     tier |-> JStr(SnakeCase(p.tier)),
     metadata |-> [k \in DOMAIN p.metadata |-> JStr(p.metadata[k])],
     created_at |-> JNum(p.created_at),
     updated_at |-> JNum(p.updated_at),
     reference |-> JOptStr(p.reference)]

\* Serialize for ApiKeyRecord
SerializeApiKey(k) ==
    [id |-> JStr(k.id),
     hashed_key |-> JStr(k.hashed_key),
     user_id |-> JStr(k.user_id),
     payment_id |-> JStr(k.payment_id),
     tier |-> JStr(SnakeCase(k.tier)),
     created_at |-> JNum(k.created_at),
     revoked |-> JBool(k.revoked),
     usage_limit |-> JOptNum(k.usage_limit),
     usage_count |-> JNum(k.usage_count),
     last_used_at |-> JOptNum(k.last_used_at)]

\* Serialize for BillingState: the whole state, both collections in order
Serialize(state) ==
    [payments |-> [i \in 1..Len(state.payments) |-> SerializePayment(state.payments[i])],
     api_keys |-> [i \in 1..Len(state.api_keys) |-> SerializeApiKey(state.api_keys[i])]]

---------------------------------------------------------------------------
(* store.rs: load_state. serde_json::from_str into a BillingState: every    *)
(* member is read back by its type, None standing for a document that does  *)
(* not have that type.                                                      *)

\* Deserialize for String, u64 and bool
DeStr(j) == IF Len(j) = 2 /\ j[1] = "string" THEN Some(j[2]) ELSE None
DeNum(j) == IF Len(j) = 2 /\ j[1] = "number" THEN Some(j[2]) ELSE None
DeBool(j) == IF Len(j) = 2 /\ j[1] = "bool" THEN Some(j[2]) ELSE None

\* Deserialize for Option<String> and Option<u64>: null is None
DeOptStr(j) == IF j = JNull THEN Some(None) ELSE IF DeStr(j) = None THEN None ELSE Some(DeStr(j))
DeOptNum(j) == IF j = JNull THEN Some(None) ELSE IF DeNum(j) = None THEN None ELSE Some(DeNum(j))

\* Deserialize for an enum under rename_all = "snake_case": the variant with
\* that name, if there is one
DeVariant(variants, j) ==
    IF DeStr(j) # None /\ \E v \in variants : SnakeCase(v) = Unwrap(DeStr(j))
    THEN Some(CHOOSE v \in variants : SnakeCase(v) = Unwrap(DeStr(j)))
    ELSE None
DeProviderAsStr(j) ==
    IF DeStr(j) # None /\ \E v \in PaymentProviderKind : ProviderAsStr(v) = Unwrap(DeStr(j))
    THEN Some(CHOOSE v \in PaymentProviderKind : ProviderAsStr(v) = Unwrap(DeStr(j)))
    ELSE None
DeProvider(j) == DeVariant(PaymentProviderKind, j)
DeStatus(j) == DeVariant(PaymentStatus, j)
DeTier(j) == DeVariant(ApiTier, j)

\* Deserialize for HashMap<String, String>
DeMetadata(j) ==
    IF \E k \in DOMAIN j : DeStr(j[k]) = None THEN None
    ELSE Some([k \in DOMAIN j |-> Unwrap(DeStr(j[k]))])

\* Deserialize for PaymentRecord
DeserializePayment(j) ==
    LET members == <<DeStr(j.id), DeProvider(j.provider), DeStatus(j.status),
                     DeNum(j.amount_cents), DeStr(j.currency), DeStr(j.user_id),
                     DeTier(j.tier), DeMetadata(j.metadata), DeNum(j.created_at),
                     DeNum(j.updated_at), DeOptStr(j.reference)>>
    IN  IF \E i \in 1..Len(members) : members[i] = None THEN None
        ELSE Some([id |-> Unwrap(members[1]),
                   provider |-> Unwrap(members[2]),
                   status |-> Unwrap(members[3]),
                   amount_cents |-> Unwrap(members[4]),
                   currency |-> Unwrap(members[5]),
                   user_id |-> Unwrap(members[6]),
                   tier |-> Unwrap(members[7]),
                   metadata |-> Unwrap(members[8]),
                   created_at |-> Unwrap(members[9]),
                   updated_at |-> Unwrap(members[10]),
                   reference |-> Unwrap(members[11])])

\* Deserialize for ApiKeyRecord
DeserializeApiKey(j) ==
    LET members == <<DeStr(j.id), DeStr(j.hashed_key), DeStr(j.user_id),
                     DeStr(j.payment_id), DeTier(j.tier), DeNum(j.created_at),
                     DeBool(j.revoked), DeOptNum(j.usage_limit), DeNum(j.usage_count),
                     DeOptNum(j.last_used_at)>>
    IN  IF \E i \in 1..Len(members) : members[i] = None THEN None
        ELSE Some([id |-> Unwrap(members[1]),
                   hashed_key |-> Unwrap(members[2]),
                   user_id |-> Unwrap(members[3]),
                   payment_id |-> Unwrap(members[4]),
                   tier |-> Unwrap(members[5]),
                   created_at |-> Unwrap(members[6]),
                   revoked |-> Unwrap(members[7]),
                   usage_limit |-> Unwrap(members[8]),
                   usage_count |-> Unwrap(members[9]),
                   last_used_at |-> Unwrap(members[10])])

\* serde_json::from_str::<BillingState>: a document cut short does not parse
Deserialize(contents) ==
    IF "partial_of" \in DOMAIN contents THEN Err("Serialization")
    ELSE LET payments == [i \in 1..Len(contents.payments) |->
                              DeserializePayment(contents.payments[i])]
             api_keys == [i \in 1..Len(contents.api_keys) |->
                              DeserializeApiKey(contents.api_keys[i])]
         IN  IF \/ \E i \in 1..Len(payments) : payments[i] = None
                \/ \E i \in 1..Len(api_keys) : api_keys[i] = None
             THEN Err("Serialization")
             ELSE Ok([payments |-> [i \in 1..Len(payments) |-> Unwrap(payments[i])],
                      api_keys |-> [i \in 1..Len(api_keys) |-> Unwrap(api_keys[i])]])

\* BillingStore::load_state on the contents of the file
load_state(contents) == Deserialize(contents)

\* BillingStore::new on a path whose file is f: the state the store starts with
new_store(f) == IF f = None THEN Ok(EmptyState) ELSE load_state(Unwrap(f))

---------------------------------------------------------------------------
(* service.rs: what the service computes around its store calls *)

\* create_checkout's PaymentRecord, from the request and the processor's intent
CheckoutRecordRequestMetadata(request, intent, now) ==
    [id |-> intent.id,
     provider |-> request.provider,
     status |-> intent.status,
     amount_cents |-> request.amount_cents,
     currency |-> request.currency,
     user_id |-> request.user_id,
     tier |-> request.tier,
     metadata |-> request.metadata,
     created_at |-> now,
     updated_at |-> now,
     reference |-> None]
checkout_record(request, intent, now) ==
    [id |-> intent.id,
     provider |-> request.provider,
     status |-> intent.status,
     amount_cents |-> request.amount_cents,
     currency |-> request.currency,
     user_id |-> request.user_id,
     tier |-> request.tier,
     metadata |-> intent.metadata,
     created_at |-> now,
     updated_at |-> now,
     reference |-> None]

\* validate_api_key's scan: the id of the first record the candidate verifies
\* against, if any
find_record_id(state, candidate) ==
    LET hits == {i \in 1..Len(state.api_keys) : verify(candidate, state.api_keys[i])}
    IN  IF hits = {} THEN None ELSE Some(state.api_keys[Min(hits)].id)

\* create_checkout up to its store call (service.rs:79-89): the registry lookup
\* and the processor's intent, any processor error reported as Validation
checkout_intent(request, n) ==
    IF request.provider \notin DOMAIN processors THEN Err("ProviderUnavailable")
    ELSE LET r == create_payment_intent(processors[request.provider], request, n)
         IN  IF IsOk(r) THEN r ELSE Err("Validation")

\* settle_payment between its store calls (service.rs:123-131): the issued key
\* and the payment copy with the key's id recorded in its metadata
settle_issue(payment, usage_limit, n, now) ==
    LET issued == issue_key(payment.user_id, payment.id, payment.tier, usage_limit, n, now)
    IN  [issued |-> issued,
         payment |-> [payment EXCEPT
                        !.metadata = MapInsert(@, "api_key_id", issued.record.id)]]

---------------------------------------------------------------------------
(* What callers pass *)

U1 == "u1"
U2 == "u2"
Usd == "usd"
Eur == "eur"

ReqStripe ==
    [provider |-> "Stripe", amount_cents |-> 500, currency |-> Usd, user_id |-> U1,
     tier |-> "Standard", metadata |-> [campaign |-> "x"]]
\* the request's own metadata already holds a user_id
ReqWePay ==
    [provider |-> "WePay", amount_cents |-> 900, currency |-> Eur, user_id |-> U2,
     tier |-> "Trial", metadata |-> [user_id |-> "eve"]]
ReqZero == [ReqStripe EXCEPT !.amount_cents = 0]
ReqDisabled == [ReqStripe EXCEPT !.provider = "Paypal"]
ReqUnregistered == [ReqStripe EXCEPT !.provider = "Bitcoin"]
Requests == {ReqStripe, ReqWePay, ReqZero, ReqDisabled, ReqUnregistered}

Ref1 == "r1"
Reason == "nsf"

\* (reference, usage_limit) pairs passed to settle_payment
SettleArgs ==
    {[reference |-> None, usage_limit |-> None],
     [reference |-> Some(Ref1), usage_limit |-> Some(1)]}

\* the usage limits of the keys SpecKeys starts with
KeyLimits == {None} \cup {Some(n) : n \in 0..MaxLimit}

\* ids no record has
MissingPaymentId == "stripe_FF"
MissingKeyId == "key_ff"

\* a well-formed key that was never issued
UnknownKey == build_key_string(RawKey(0))

---------------------------------------------------------------------------
(* The state after construction (store.rs:14-25, service.rs:23-34) *)

\* States an earlier run of the service persisted, built with the service's own
\* steps at time 0: one Pending payment; that payment settled, with its key.
LoadedPending ==
    upsert_payment(EmptyState,
        checkout_record(ReqStripe, Unwrap(checkout_intent(ReqStripe, 1).val), 0)).state
LoadedSettled(usage_limit) ==
    LET updated == update_payment(LoadedPending, LoadedPending.payments[1].id,
                       [fn |-> "settle", reference |-> Some(Ref1), now |-> 0])
        si == settle_issue(Unwrap(updated.out.val), usage_limit, 1, 0)
    IN  upsert_api_key(upsert_payment(updated.state, si.payment).state,
                       si.issued.record).state
LoadableStates == {LoadedPending, LoadedSettled(Some(1))}

NoCall ==
    [op |-> "none", request |-> None, payment_id |-> "", reference |-> None,
     usage_limit |-> None, reason |-> "", candidate |-> <<>>, record_id |-> ""]
NoLoc ==
    [payment |-> None, issued |-> None, record_id |-> None, intent |-> None,
     record |-> None, out |-> None]
Unlocked == [writer |-> None, poisoned |-> FALSE]
NoProbe == [fn |-> "none"]

InitThreads ==
    /\ lock = Unlocked
    /\ pc = [t \in Threads |-> "idle"]
    /\ call = [t \in Threads |-> NoCall]
    /\ loc = [t \in Threads |-> NoLoc]
    /\ res = [t \in Threads |-> NoResult]
    /\ clock = 0
    /\ started = 0
    /\ faults = 0
    /\ caller = None
    /\ alone = [t \in Threads |-> TRUE]
    /\ probe = NoProbe

\* BillingStore::new on a path holding the file of state s
Loaded(s) ==
    /\ mem = s
    /\ file = Some(Serialize(s))
    /\ rng = [pay |-> Len(s.payments), key |-> Len(s.api_keys)]
    /\ InitThreads

\* BillingStore::new: the empty state when there is no file, else the file's state
Init ==
    \/ /\ mem = EmptyState
       /\ file = None
       /\ rng = [pay |-> 0, key |-> 0]
       /\ InitThreads
    \/ \E s \in LoadableStates : Loaded(s)

\* the service constructed on the file of a settled payment and its key
InitKeys == \E limit \in KeyLimits : Loaded(LoadedSettled(limit))

---------------------------------------------------------------------------
(* Operations. pc[t] is "idle", "done", or where thread t is in its call:     *)
(* "<site>" when its next step is the store write at that site, and          *)
(* "<site>_locked" once that write holds the lock and has run its mutator,   *)
(* with the file still to be written.                                        *)
(*    cc_upsert          create_checkout's upsert_payment  (service.rs:105)  *)
(*    sp_update          settle_payment's update_payment   (service.rs:116)  *)
(*    sp_issue           settle_payment's issue_key        (service.rs:123)  *)
(*    sp_upsert_payment  settle_payment's upsert_payment   (service.rs:132)  *)
(*    sp_upsert_key      settle_payment's upsert_api_key   (service.rs:133)  *)
(*    mf_update          mark_payment_failed's update      (service.rs:138)  *)
(*    va_update          validate_api_key's update_api_key (service.rs:161)  *)
(*    rv_update          revoke_api_key's update_api_key   (service.rs:180)  *)
(* A call starts with its first step: a caller that has not yet taken the    *)
(* lock, or not yet run its first line, has done nothing another thread can  *)
(* observe.                                                                  *)

WriteSites ==
    {"cc_upsert", "sp_update", "sp_upsert_payment", "sp_upsert_key", "mf_update",
     "va_update", "rv_update"}
Locked(site) ==
    CASE site = "cc_upsert" -> "cc_upsert_locked"
      [] site = "sp_update" -> "sp_update_locked"
      [] site = "sp_upsert_payment" -> "sp_upsert_payment_locked"
      [] site = "sp_upsert_key" -> "sp_upsert_key_locked"
      [] site = "mf_update" -> "mf_update_locked"
      [] site = "va_update" -> "va_update_locked"
      [] site = "rv_update" -> "rv_update_locked"
SiteOf(p) == CHOOSE site \in WriteSites : p \in {site, Locked(site)}
AtLocked(t) == \E site \in WriteSites : pc[t] = Locked(site)

CanStart(t) == pc[t] \in {"idle", "done"}

\* thread t starts the call c
Begin(t, c) ==
    /\ CanStart(t)
    /\ started' = started + 1
    /\ call' = [call EXCEPT ![t] = c]

\* thread t's call of op returns result
Finish(t, op, result) ==
    /\ pc' = [pc EXCEPT ![t] = "done"]
    /\ res' = [res EXCEPT ![t] = [op |-> op, kind |-> result.kind, val |-> result.val]]
    /\ loc' = [loc EXCEPT ![t] = NoLoc]

\* thread t's call goes on to position p with locals l
Goto(t, p, l) ==
    /\ pc' = [pc EXCEPT ![t] = p]
    /\ loc' = [loc EXCEPT ![t] = l]
    /\ res' = [res EXCEPT ![t] = NoResult]

\* BillingService::create_checkout up to upsert_payment (service.rs:78-104)
CallCreateCheckout(t, request) ==
    /\ Begin(t, [NoCall EXCEPT !.op = "create_checkout", !.request = Some(request)])
    /\ LET r == checkout_intent(request, rng.pay + 1)
       IN  IF ~IsOk(r)
           THEN Finish(t, "create_checkout", r) /\ UNCHANGED <<rng, clock>>
           ELSE \E now \in Nows :
                   /\ clock' = now
                   /\ rng' = [rng EXCEPT !.pay = @ + 1]
                   /\ Goto(t, "cc_upsert",
                           [NoLoc EXCEPT !.intent = r.val,
                               !.record = Some(checkout_record(request, Unwrap(r.val), now))])
    /\ UNCHANGED <<mem, file, lock, probe>>

\* BillingService::validate_api_key up to update_api_key (service.rs:149-159):
\* the scan under the read lock, which no writer may hold
CallValidateApiKey(t, candidate) ==
    /\ Begin(t, [NoCall EXCEPT !.op = "validate_api_key", !.candidate = candidate])
    /\ lock.writer = None
    /\ ~lock.poisoned
    /\ LET found == find_record_id(mem, candidate)
       IN  IF found = None
           THEN Finish(t, "validate_api_key", Err("Validation"))
           ELSE Goto(t, "va_update", [NoLoc EXCEPT !.record_id = found])
    /\ UNCHANGED <<mem, file, lock, rng, clock, probe>>

\* the mutator of the write at site, in the call c with locals l, applied to the
\* state at time now
mutate(site, c, l, now) ==
    CASE site = "cc_upsert" -> upsert_payment(mem, Unwrap(l.record))
      [] site = "sp_update" ->
            update_payment(mem, c.payment_id,
                [fn |-> "settle", reference |-> c.reference, now |-> now])
      [] site = "sp_upsert_payment" -> upsert_payment(mem, Unwrap(l.payment))
      [] site = "sp_upsert_key" -> upsert_api_key(mem, Unwrap(l.issued).record)
      [] site = "mf_update" ->
            update_payment(mem, c.payment_id,
                [fn |-> "fail", reason |-> c.reason, now |-> now])
      [] site = "va_update" ->
            update_api_key(mem, Unwrap(l.record_id), [fn |-> "validate", now |-> now])
      [] site = "rv_update" ->
            update_api_key(mem, c.record_id, [fn |-> "revoke", now |-> now])

\* the updaters read the clock, and only when they succeed
ReadsClock(site) == site \in {"sp_update", "mf_update", "va_update", "rv_update"}

\* BillingStore::write takes the exclusive lock and runs the mutator
\* (store.rs:42-46); the mutator's error returns at once, dropping the guard, with
\* nothing persisted
WriteStep(t, site, c, l) ==
    /\ lock.writer = None
    /\ ~lock.poisoned
    /\ \E now \in Nows :
        LET r == mutate(site, c, l, now)
        IN  /\ mem' = r.state
            /\ clock' = IF ReadsClock(site) /\ IsOk(r.out) THEN now ELSE clock
            /\ IF IsOk(r.out)
               THEN /\ lock' = [lock EXCEPT !.writer = Some(t)]
                    /\ Goto(t, Locked(site), [l EXCEPT !.out = r.out.val])
               ELSE /\ UNCHANGED lock
                    /\ Finish(t, c.op, r.out)
    /\ UNCHANGED <<file, rng, probe>>

\* BillingService::settle_payment up to the mutator of update_payment
\* (service.rs:110-121)
CallSettlePayment(t, payment_id, reference, usage_limit) ==
    LET c == [NoCall EXCEPT !.op = "settle_payment", !.payment_id = payment_id,
                  !.reference = reference, !.usage_limit = usage_limit]
    IN  Begin(t, c) /\ WriteStep(t, "sp_update", c, NoLoc)

\* BillingService::mark_payment_failed up to the mutator of update_payment
\* (service.rs:137-145)
CallMarkPaymentFailed(t, payment_id, reason) ==
    LET c == [NoCall EXCEPT !.op = "mark_payment_failed", !.payment_id = payment_id,
                  !.reason = reason]
    IN  Begin(t, c) /\ WriteStep(t, "mf_update", c, NoLoc)

\* BillingService::revoke_api_key up to the mutator of update_api_key
\* (service.rs:179-184)
CallRevokeApiKey(t, record_id) ==
    LET c == [NoCall EXCEPT !.op = "revoke_api_key", !.record_id = record_id]
    IN  Begin(t, c) /\ WriteStep(t, "rv_update", c, NoLoc)

\* a store write that is not the first step of its call: create_checkout's
\* upsert, validate_api_key's update, settle_payment's two upserts
WriteApply(t) ==
    /\ pc[t] \in WriteSites
    /\ WriteStep(t, pc[t], call[t], loc[t])
    /\ UNCHANGED <<call, started>>

\* where the operation goes on once the write at site has returned Ok(out)
AfterWrite(t, out) ==
    LET site == SiteOf(pc[t])
    IN  CASE site = "cc_upsert" -> Finish(t, call[t].op, Ok(Unwrap(loc[t].intent)))
          [] site = "sp_update" ->
                Goto(t, "sp_issue", [loc[t] EXCEPT !.payment = Some(out), !.out = None])
          [] site = "sp_upsert_payment" ->
                Goto(t, "sp_upsert_key", [loc[t] EXCEPT !.out = None])
          [] site = "sp_upsert_key" -> Finish(t, call[t].op, Ok(Unwrap(loc[t].issued)))
          [] site = "mf_update" -> Finish(t, call[t].op, Ok(<<>>))
          [] site \in {"va_update", "rv_update"} -> Finish(t, call[t].op, Ok(out))

\* BillingStore::write persists and returns (store.rs:47-48, 79-90): the whole
\* state is written to the file, then the guard is dropped
WritePersistKeepsFile(t) ==
    /\ AtLocked(t)
    /\ file' = file
    /\ lock' = [lock EXCEPT !.writer = None]
    /\ AfterWrite(t, Unwrap(loc[t].out))
    /\ UNCHANGED <<mem, call, rng, clock, started, probe>>
WritePersistKeepsLock(t) ==
    /\ AtLocked(t)
    /\ file' = Some(Serialize(mem))
    /\ lock' = lock
    /\ AfterWrite(t, Unwrap(loc[t].out))
    /\ UNCHANGED <<mem, call, rng, clock, started, probe>>
WritePersist(t) ==
    /\ AtLocked(t)
    /\ file' = Some(Serialize(mem))
    /\ lock' = [lock EXCEPT !.writer = None]
    /\ AfterWrite(t, Unwrap(loc[t].out))
    /\ UNCHANGED <<mem, call, rng, clock, started, probe>>

\* what a failed persist leaves of the file: a proper prefix of the serialization
Partial(serialized) == [partial_of |-> serialized]

\* BillingStore::write when persist fails (store.rs:47, 79-90): the file is
\* untouched (create_dir_all or File::create failed), cut short (write_all
\* failed) or written in full (sync_all failed); write returns the Io error,
\* dropping the guard, and the mutation stays in memory
WritePersistFailsRollsBack(t) ==
    /\ AtLocked(t)
    /\ file' = file
    /\ mem' = IF IsOk(new_store(file)) THEN Unwrap(new_store(file).val) ELSE mem
    /\ lock' = [lock EXCEPT !.writer = None]
    /\ Finish(t, call[t].op, Err("Io"))
    /\ UNCHANGED <<call, rng, clock, started, probe>>
WritePersistFails(t) ==
    /\ AtLocked(t)
    /\ file' \in {file, Some(Partial(Serialize(mem))), Some(Serialize(mem))}
    /\ lock' = [lock EXCEPT !.writer = None]
    /\ Finish(t, call[t].op, Err("Io"))
    /\ UNCHANGED <<mem, call, rng, clock, started, probe>>

\* BillingService::settle_payment issues the key (service.rs:123-131)
SettleIssue(t) ==
    /\ pc[t] = "sp_issue"
    /\ \E now \in Nows :
        LET si == settle_issue(Unwrap(loc[t].payment), call[t].usage_limit, rng.key + 1, now)
        IN  /\ clock' = now
            /\ Goto(t, "sp_upsert_payment",
                    [loc[t] EXCEPT !.payment = Some(si.payment), !.issued = Some(si.issued)])
    /\ rng' = [rng EXCEPT !.key = @ + 1]
    /\ UNCHANGED <<mem, file, lock, call, started, probe>>

\* the ids and keys callers know of
PaymentIdArgs == {mem.payments[i].id : i \in 1..Len(mem.payments)} \cup {MissingPaymentId}
KeyIdArgs == {mem.api_keys[i].id : i \in 1..Len(mem.api_keys)} \cup {MissingKeyId}
Candidates == {build_key_string(RawKey(n)) : n \in 1..rng.key} \cup {UnknownKey}

\* thread t starts a call in this step
Began(t) == started' = started + 1 /\ caller' = Some(t)

\* History, kept as thread t takes a step: caller is the thread of the latest
\* call; alone[u] turns false once another call naming the same payment is in
\* progress while u's is.
Busy(p) == p \notin {"idle", "done"}
History(t) ==
    /\ caller' = IF started' # started THEN Some(t) ELSE caller
    /\ alone' = [u \in Threads |->
          \/ ~Busy(pc'[u])
          \/ /\ (u = t /\ started' # started) \/ alone[u]
             /\ \/ call'[u].payment_id = ""
                \/ \A v \in Threads \ {u} :
                      Busy(pc'[v]) => call'[v].payment_id # call'[u].payment_id]

\* a step of thread t in which every file write succeeds
Track(t) == History(t) /\ UNCHANGED faults

\* Callers run every operation of the service
Next ==
    \E t \in Callers :
        \/ /\ started < MaxCalls
           /\ \E request \in Requests : CallCreateCheckout(t, request)
           /\ Track(t)
        \/ /\ started < MaxCalls
           /\ \E payment_id \in PaymentIdArgs, a \in SettleArgs :
                 CallSettlePayment(t, payment_id, a.reference, a.usage_limit)
           /\ Track(t)
        \/ /\ started < MaxCalls
           /\ \E payment_id \in PaymentIdArgs : CallMarkPaymentFailed(t, payment_id, Reason)
           /\ Track(t)
        \/ /\ started < MaxCalls
           /\ \E candidate \in Candidates : CallValidateApiKey(t, candidate)
           /\ Track(t)
        \/ /\ started < MaxCalls
           /\ \E record_id \in KeyIdArgs : CallRevokeApiKey(t, record_id)
           /\ Track(t)
        \/ WriteApply(t) /\ Track(t)
        \/ WritePersist(t) /\ Track(t)
        \/ SettleIssue(t) /\ Track(t)

Spec == Init /\ [][Next]_vars

\* a step of thread t within one second of the clock, its file write succeeding
TrackFaults(t) == Track(t) /\ clock' = clock

\* Callers run the operations on the records there are, within one second of the
\* clock, on a file system whose writes may fail
NextFaults ==
    \E t \in Callers :
        \/ /\ started < MaxCalls
           /\ CallCreateCheckout(t, ReqStripe)
           /\ TrackFaults(t)
        \/ /\ started < MaxCalls
           /\ \E payment_id \in PaymentIdArgs \ {MissingPaymentId} :
                 CallSettlePayment(t, payment_id, Some(Ref1), Some(1))
           /\ TrackFaults(t)
        \/ /\ started < MaxCalls
           /\ \E payment_id \in PaymentIdArgs \ {MissingPaymentId} :
                 CallMarkPaymentFailed(t, payment_id, Reason)
           /\ TrackFaults(t)
        \/ /\ started < MaxCalls
           /\ \E candidate \in Candidates \ {UnknownKey} : CallValidateApiKey(t, candidate)
           /\ TrackFaults(t)
        \/ /\ started < MaxCalls
           /\ \E record_id \in KeyIdArgs \ {MissingKeyId} : CallRevokeApiKey(t, record_id)
           /\ TrackFaults(t)
        \/ WriteApply(t) /\ TrackFaults(t)
        \/ WritePersist(t) /\ TrackFaults(t)
        \/ SettleIssue(t) /\ TrackFaults(t)
        \/ /\ faults < MaxFaults
           /\ WritePersistFails(t)
           /\ History(t)
           /\ faults' = faults + 1

SpecFaults == Init /\ [][NextFaults]_vars

\* Threads use and revoke the keys of a settled payment
NextKeys ==
    \E t \in Threads :
        \/ /\ started < MaxKeyCalls
           /\ \E candidate \in Candidates : CallValidateApiKey(t, candidate)
           /\ Track(t)
        \/ /\ started < MaxKeyCalls
           /\ \E record_id \in KeyIdArgs : CallRevokeApiKey(t, record_id)
           /\ Track(t)
        \/ WriteApply(t) /\ Track(t)
        \/ WritePersist(t) /\ Track(t)

SpecKeys == InitKeys /\ [][NextKeys]_vars

---------------------------------------------------------------------------
(* The credential manager on its own: keys are issued, candidates are      *)
(* verified against their records, and records whose hashed_key has been   *)
(* damaged in storage are verified too. Only probe changes.                *)

\* the n-th key the manager issues, for the payment of LoadedPending
Issued(n, usage_limit, now) ==
    LET payment == LoadedPending.payments[1]
    IN  issue_key(payment.user_id, payment.id, payment.tier, usage_limit, n, now)

\* candidates presented against the record of the n-th key: the plaintexts of
\* this and of the other draws, and texts made from the plaintext and the record
ProbeCandidates(n, record) ==
    LET api_key == build_key_string(RawKey(n))
    IN  {build_key_string(RawKey(m)) : m \in 0..MaxDraws}
          \cup {<<>>,
                SubSeq(api_key, 1, Len(api_key) - 1),
                api_key \o <<"0">>,
                Tail(api_key),
                to_hex_upper(RawKey(n)),
                to_hex(RawKey(n)),
                [api_key EXCEPT ![Len(api_key)] = IF @ = "0" THEN "1" ELSE "0"],
                record.hashed_key,
                to_hex(hash_digest(api_key, SaltOf(n)))}

\* hashed_key values that are not "<hex salt>:<hex digest>"
Malformed(h) ==
    LET colon == FirstIndexOf(h, ":")
    IN  {<<>>,
         SelectSeq(h, LAMBDA c : c # ":"),
         Tail(h),
         SubSeq(h, 1, Len(h) - 1),
         [h EXCEPT ![1] = "g"],
         [h EXCEPT ![Len(h)] = "z"],
         SubSeq(h, 1, colon) \o <<":">> \o SubSeq(h, colon + 1, Len(h)),
         SubSeq(h, 1, Len(h) - 2) \o <<"$">> \o SubSeq(h, Len(h) - 1, Len(h)),
         build_key_string(RawKey(1))}

ProbeStill == UNCHANGED <<mem, file, lock, pc, call, loc, res, rng, clock, started,
                          faults, caller, alone>>

\* ApiKeyManager::issue_key
ProbeIssue(n, usage_limit, now) ==
    /\ probe.fn = "none"
    /\ probe' = [fn |-> "issue_key", n |-> n, issued |-> Issued(n, usage_limit, now),
                 stored |-> "fresh", candidate |-> <<>>, verified |-> FALSE]
    /\ ProbeStill

\* the record's hashed_key is replaced by a malformed value
ProbeDamage ==
    /\ probe.fn = "issue_key"
    /\ \E h \in Malformed(probe.issued.record.hashed_key) :
          probe' = [probe EXCEPT !.fn = "damage", !.stored = "malformed",
                                 !.issued.record.hashed_key = h]
    /\ ProbeStill

\* ApiKeyManager::verify
ProbeVerify ==
    /\ probe.fn \in {"issue_key", "damage"}
    /\ \E candidate \in ProbeCandidates(probe.n, probe.issued.record) :
          probe' = [probe EXCEPT !.fn = "verify", !.candidate = candidate,
                                 !.verified = verify(candidate, probe.issued.record)]
    /\ ProbeStill

NextCredentials ==
    \/ \E n \in 1..MaxDraws, usage_limit \in KeyLimits, now \in Times :
          ProbeIssue(n, usage_limit, now)
    \/ ProbeDamage
    \/ ProbeVerify

InitCredentials ==
    /\ mem = EmptyState
    /\ file = None
    /\ rng = [pay |-> 0, key |-> 0]
    /\ InitThreads

SpecCredentials == InitCredentials /\ [][NextCredentials]_vars

---------------------------------------------------------------------------
(* A processor's webhook check on its own: configurations with and without *)
(* a secret, signatures and payloads. Only probe changes.                  *)

\* the texts of at most n characters over the characters a and b
RECURSIVE TextsUpTo(_)
TextsUpTo(n) ==
    IF n = 0 THEN {<<>>}
    ELSE TextsUpTo(n - 1) \cup
         {Append(w, c) : w \in {v \in TextsUpTo(n - 1) : Len(v) = n - 1}, c \in {"a", "b"}}

\* webhook secrets a processor is configured with, signatures a caller sends
\* (some longer than any secret), and payloads
WebhookSecrets == {None} \cup {Some(w) : w \in TextsUpTo(MaxSecretLen)}
Signatures == TextsUpTo(MaxSecretLen + 1)
Payloads == {<<>>, <<0>>, <<123, 125>>}

\* HostedCheckoutProcessor::validate_webhook_signature, of the processor of a
\* Stripe configuration with this secret
ProbeWebhook(secret, signature, payload) ==
    LET config == [provider |-> "Stripe", enabled |-> TRUE, webhook_secret |-> secret]
    IN  /\ probe' = [fn |-> "validate_webhook_signature", secret |-> secret,
                     signature |-> signature, payload |-> payload,
                     valid |-> validate_webhook_signature(config, signature, payload)]
        /\ ProbeStill

NextWebhook ==
    \E secret \in WebhookSecrets, signature \in Signatures, payload \in Payloads :
        ProbeWebhook(secret, signature, payload)

SpecWebhook == InitCredentials /\ [][NextWebhook]_vars

---------------------------------------------------------------------------
(* The service restarted on its file: BillingStore::new is run again on the *)
(* path of the running store, and the service goes on from what it loaded.  *)

\* how many times the store has been constructed again
Reopens == IF probe.fn = "new" THEN probe.n ELSE 0

\* BillingStore::new on the path of the store (store.rs:14-25): on Ok the
\* service starts over from the loaded state, with no call in progress; on Err
\* there is no new service and the running one goes on
Reopen ==
    LET opened == new_store(file)
    IN  /\ probe' = [fn |-> "new", kind |-> opened.kind, n |-> Reopens + 1]
        /\ IF IsOk(opened)
           THEN /\ mem' = Unwrap(opened.val)
                /\ lock' = Unlocked
                /\ pc' = [t \in Threads |-> "idle"]
                /\ call' = [t \in Threads |-> NoCall]
                /\ loc' = [t \in Threads |-> NoLoc]
                /\ res' = [t \in Threads |-> NoResult]
                /\ caller' = None
                /\ alone' = [t \in Threads |-> TRUE]
           ELSE UNCHANGED <<mem, lock, pc, call, loc, res, caller, alone>>
        /\ UNCHANGED <<file, rng, clock, started, faults>>

\* Callers run the operations on the records there are, within one second of
\* the clock, and the service is restarted at any moment
NextReopen ==
    \/ \E t \in Callers :
          \/ /\ started < MaxCalls
             /\ \E request \in {ReqStripe, ReqWePay} : CallCreateCheckout(t, request)
             /\ TrackFaults(t)
          \/ /\ started < MaxCalls
             /\ \E payment_id \in PaymentIdArgs \ {MissingPaymentId}, a \in SettleArgs :
                   CallSettlePayment(t, payment_id, a.reference, a.usage_limit)
             /\ TrackFaults(t)
          \/ /\ started < MaxCalls
             /\ \E payment_id \in PaymentIdArgs \ {MissingPaymentId} :
                   CallMarkPaymentFailed(t, payment_id, Reason)
             /\ TrackFaults(t)
          \/ /\ started < MaxCalls
             /\ \E candidate \in Candidates \ {UnknownKey} : CallValidateApiKey(t, candidate)
             /\ TrackFaults(t)
          \/ /\ started < MaxCalls
             /\ \E record_id \in KeyIdArgs \ {MissingKeyId} : CallRevokeApiKey(t, record_id)
             /\ TrackFaults(t)
          \/ WriteApply(t) /\ TrackFaults(t)
          \/ WritePersist(t) /\ TrackFaults(t)
          \/ SettleIssue(t) /\ TrackFaults(t)
    \/ Reopens < MaxReopens /\ Reopen

SpecReopen == Init /\ [][NextReopen]_vars

---------------------------------------------------------------------------
(* Properties of the payments and of the store *)

\* the payment record with this id in a state, and whether there is one
PaymentById(state, id) == state.payments[IndexOfId(state.payments, id)]
HasPayment(state, id) == IndexOfId(state.payments, id) # 0
HasKey(state, id) == IndexOfId(state.api_keys, id) # 0
\* the key record with this id in a state
KeyById(state, id) == state.api_keys[IndexOfId(state.api_keys, id)]

\* the ids of the key records of a payment
KeysOf(state, payment_id) ==
    {state.api_keys[i].id : i \in {j \in 1..Len(state.api_keys) :
                                      state.api_keys[j].payment_id = payment_id}}

\* thread t is inside a settle_payment
Settling(t) == call[t].op = "settle_payment" /\ Busy(pc[t])

\* thread t's settle_payment returns from its last store call in this step
SettleReturns(t) == pc[t] = "sp_upsert_key_locked" /\ pc'[t] = "done"

\* settle_payment fails only at its first store call and only with NotFound for
\* an id no payment has; past that call it leaves only by returning Ok
SettleSucceeds(t) ==
    /\ (Began(t) /\ call'[t].op = "settle_payment" /\ pc'[t] = "done") =>
          /\ res'[t].kind = "NotFound"
          /\ ~HasPayment(mem, call'[t].payment_id)
    /\ (Settling(t) /\ pc'[t] = "done") => SettleReturns(t) /\ res'[t].kind = "Ok"

\* while a settle_payment of payment p runs with no other call on p, the keys
\* of p change only at its upsert_api_key, which adds the one issued record
SettleAddsOneKey(t) ==
    LET id == call[t].payment_id
    IN  (Settling(t) /\ alone[t]) =>
            IF pc[t] = "sp_upsert_key" /\ pc'[t] = "sp_upsert_key_locked"
            THEN /\ Unwrap(loc[t].issued).record.id \notin KeysOf(mem, id)
                 /\ KeysOf(mem', id) = KeysOf(mem, id) \cup {Unwrap(loc[t].issued).record.id}
                 /\ Len(mem'.api_keys) = Len(mem.api_keys) + 1
            ELSE KeysOf(mem', id) = KeysOf(mem, id)

\* what a settle_payment of payment p that ran with no other call on p leaves
\* as it returns
SettleLeaves(t) ==
    LET id == call[t].payment_id
        p == PaymentById(mem', id)
        issued == Unwrap(res'[t].val)
        k == issued.record
    IN  (SettleReturns(t) /\ alone[t]) =>
            /\ res'[t].op = "settle_payment"
            /\ res'[t].kind = "Ok"
            /\ HasPayment(mem', id)
            /\ p.status = "Succeeded"
            /\ p.reference = call[t].reference
            /\ k.id \in KeysOf(mem', id)
            /\ KeyById(mem', k.id) = k
            /\ k.payment_id = p.id
            /\ k.user_id = p.user_id
            /\ k.tier = p.tier
            /\ k.revoked = FALSE
            /\ k.usage_count = 0
            /\ k.usage_limit = call[t].usage_limit
            /\ "api_key_id" \in DOMAIN p.metadata
            /\ p.metadata["api_key_id"] = k.id
            /\ verify(issued.api_key, k)

\* C3: settle_payment(p, reference, usage_limit) on an existing payment p, with
\* no other call on p in progress, returns success and leaves p Succeeded with
\* the given reference, exactly one key record of p more than before, that
\* record with p's id, user_id and tier, not revoked, usage_count 0 and the
\* given usage_limit, and p.metadata["api_key_id"] equal to that record's id.
\* The code does not look at p's status, so this holds for a Pending p.
C3_SettlePayment ==
    [][\A t \in Threads : SettleSucceeds(t) /\ SettleAddsOneKey(t) /\ SettleLeaves(t)]_vars

\* the only call so far was a settle_payment of the Pending payment of the
\* loaded file, and it has returned the first key
C3_PendingSettled ==
    \E t \in Threads :
        /\ started = 1
        /\ pc[t] = "done"
        /\ res[t].op = "settle_payment"
        /\ res[t].kind = "Ok"
        /\ Len(mem.api_keys) = 1
        /\ PaymentById(mem, call[t].payment_id).status = "Succeeded"
        /\ PaymentById(LoadedPending, call[t].payment_id).status = "Pending"

\* a settle_payment or mark_payment_failed of an id no payment has, or a
\* revoke_api_key of an id no key has, returns NotFound at once and leaves the
\* memory, the file, the random draws and the lock as they were
NotFoundLeavesState(t) ==
    (/\ Began(t)
     /\ \/ /\ call'[t].op \in {"settle_payment", "mark_payment_failed"}
           /\ ~HasPayment(mem, call'[t].payment_id)
        \/ /\ call'[t].op = "revoke_api_key"
           /\ ~HasKey(mem, call'[t].record_id)) =>
        /\ pc'[t] = "done"
        /\ res'[t] = [op |-> call'[t].op, kind |-> "NotFound", val |-> <<>>]
        /\ mem' = mem
        /\ file' = file
        /\ rng' = rng
        /\ lock' = lock

\* C4: settle_payment and mark_payment_failed with a payment id that does not
\* exist, and revoke_api_key with a key id that does not exist, return NotFound
\* and leave the whole state, payments, keys and file, unchanged; settle_payment
\* issues no key.
C4_NotFound == [][\A t \in Threads : NotFoundLeavesState(t)]_vars

\* a settle_payment and a revoke_api_key have both returned NotFound
C4_BothNotFound ==
    \E t, u \in Threads :
        /\ pc[t] = "done" /\ res[t].op = "settle_payment" /\ res[t].kind = "NotFound"
        /\ pc[u] = "done" /\ res[u].op = "revoke_api_key" /\ res[u].kind = "NotFound"
        /\ call[t].payment_id = MissingPaymentId
        /\ call[u].record_id = MissingKeyId

\* the provider of a request has an enabled processor
Enabled(request) ==
    \E i \in 1..Len(ProviderConfigs) :
        ProviderConfigs[i].provider = request.provider /\ ProviderConfigs[i].enabled
Registered(request) ==
    \E i \in 1..Len(ProviderConfigs) : ProviderConfigs[i].provider = request.provider

\* thread t's create_checkout is turned down in this step, with this error, and
\* nothing changes
Rejected(t, kind) ==
    /\ pc'[t] = "done"
    /\ res'[t] = [op |-> "create_checkout", kind |-> kind, val |-> <<>>]
    /\ mem' = mem
    /\ file' = file

CheckoutRejects(t) ==
    (Began(t) /\ call'[t].op = "create_checkout") =>
        LET request == Unwrap(call'[t].request)
        IN  /\ (Enabled(request) /\ request.amount_cents = 0) => Rejected(t, "Validation")
            /\ ~Registered(request) => Rejected(t, "ProviderUnavailable")

\* C5: create_checkout with amount 0 for a registered, enabled provider fails
\* with Validation, and create_checkout for a provider that is not registered
\* fails with ProviderUnavailable; neither creates a PaymentRecord.
C5_CheckoutRejected == [][\A t \in Threads : CheckoutRejects(t)]_vars

\* both rejections have happened and the payments are those of the start
C5_BothRejected ==
    \E t, u \in Threads :
        /\ pc[t] = "done" /\ call[t].request = Some(ReqZero) /\ res[t].kind = "Validation"
        /\ pc[u] = "done" /\ call[u].request = Some(ReqUnregistered)
        /\ res[u].kind = "ProviderUnavailable"
        /\ mem \in {EmptyState} \cup LoadableStates

\* thread t's store write returns Ok in this step: the call goes on or returns,
\* and not with the Io error
WriteReturnsOk(t) == AtLocked(t) /\ pc'[t] # pc[t] /\ res'[t].kind # "Io"

\* a write that returns Ok leaves the file holding the serialization of the
\* whole state, written while it held the lock
DurableOnReturn ==
    \A t \in Threads :
        WriteReturnsOk(t) =>
            /\ lock.writer = Some(t)
            /\ lock'.writer = None
            /\ mem' = mem
            /\ file' = Some(Serialize(mem'))

\* the file goes on holding the state as long as no write takes the lock
DurableUntilNextWrite ==
    (file = Some(Serialize(mem)) /\ lock.writer = None /\ lock'.writer = None) =>
        file' = Some(Serialize(mem'))

\* the memory changes only as a write takes the lock, and the file only as the
\* holder of the lock gives it up; in between nothing changes either
OneCriticalSection ==
    /\ mem' # mem => lock.writer = None /\ lock'.writer # None
    /\ file' # file => lock.writer # None /\ lock'.writer = None /\ mem' = mem
    /\ (lock.writer # None /\ lock'.writer # None) => lock' = lock /\ file' = file

\* C7: after any store write returns success the file holds the serialization
\* of the whole in-memory state as of that write, and goes on holding the
\* state until the next write begins; the file is written in the same exclusive
\* critical section as the memory is changed. File writes may fail in between.
C7_Durable == [][DurableOnReturn /\ DurableUntilNextWrite /\ OneCriticalSection]_vars

\* a file write has failed, a settle_payment has returned its key since, and the
\* file holds the state
C7_WrittenAfterFault ==
    \E t \in Threads :
        /\ faults = 1
        /\ caller = Some(t)
        /\ pc[t] = "done"
        /\ res[t].op = "settle_payment"
        /\ res[t].kind = "Ok"
        /\ lock.writer = None
        /\ mem.api_keys # <<>>
        /\ file = Some(Serialize(mem))

PaymentIds(state) == {state.payments[i].id : i \in 1..Len(state.payments)}
KeyIds(state) == {state.api_keys[i].id : i \in 1..Len(state.api_keys)}

\* no record leaves either collection
NothingRemoved ==
    /\ PaymentIds(mem) \subseteq PaymentIds(mem')
    /\ KeyIds(mem) \subseteq KeyIds(mem')
    /\ Len(mem.payments) <= Len(mem'.payments)
    /\ Len(mem.api_keys) <= Len(mem'.api_keys)

\* the payments grow only by the record of a create_checkout, at its upsert, and
\* the keys only by the record of a settle_payment, at its upsert
GrowsOnlyBy ==
    /\ (PaymentIds(mem') # PaymentIds(mem) \/ Len(mem'.payments) # Len(mem.payments)) =>
          \E t \in Threads :
              /\ call[t].op = "create_checkout"
              /\ pc[t] = "cc_upsert" /\ pc'[t] = "cc_upsert_locked"
              /\ mem'.payments = Append(mem.payments, Unwrap(loc[t].record))
    /\ (KeyIds(mem') # KeyIds(mem) \/ Len(mem'.api_keys) # Len(mem.api_keys)) =>
          \E t \in Threads :
              /\ call[t].op = "settle_payment"
              /\ pc[t] = "sp_upsert_key" /\ pc'[t] = "sp_upsert_key_locked"
              /\ mem'.api_keys = Append(mem.api_keys, Unwrap(loc[t].issued).record)

\* every key record names a payment record of the state
KeysHavePayments ==
    \A i \in 1..Len(mem.api_keys) : HasPayment(mem, mem.api_keys[i].payment_id)

\* the create_checkout of thread t, which has added its record, returns
CheckoutReturns(t) == pc[t] = "cc_upsert_locked" /\ pc'[t] = "done"

\* C8 as stated: no record is ever removed, the payments grow only through a
\* successful create_checkout and the keys only through settle_payment, and
\* every key's payment_id names a payment of the state.
C8_GrowsBySuccess ==
    /\ []KeysHavePayments
    /\ [][/\ NothingRemoved
          /\ GrowsOnlyBy
          /\ \A t \in Threads : CheckoutReturns(t) => res'[t].kind = "Ok"]_vars

\* C8, amended: no record is ever removed, the payments grow only through
\* create_checkout, whose call returns success or, when the file write fails,
\* the Io error with its record kept in memory; the keys grow only through
\* settle_payment; and every key's payment_id names a payment of the state.
C8_GrowsByCheckout ==
    /\ []KeysHavePayments
    /\ [][/\ NothingRemoved
          /\ GrowsOnlyBy
          /\ \A t \in Threads :
                CheckoutReturns(t) =>
                    \/ res'[t].kind = "Ok" /\ faults' = faults
                    \/ res'[t].kind = "Io" /\ faults' = faults + 1]_vars

\* the only call so far, a create_checkout on the empty state, has returned the
\* Io error and its record is in memory
C8_GrownByFailedCheckout ==
    \E t \in Threads :
        /\ started = 1
        /\ pc[t] = "done"
        /\ res[t].op = "create_checkout"
        /\ res[t].kind = "Io"
        /\ Len(mem.payments) = 1
        /\ mem.api_keys = <<>>
        /\ file # Some(Serialize(mem))

\* the record a create_checkout adds at its upsert, and nothing else changes
CheckoutAdds(t) ==
    (call[t].op = "create_checkout" /\ pc[t] = "cc_upsert"
        /\ pc'[t] = "cc_upsert_locked") =>
        LET request == Unwrap(call[t].request)
            intent == Unwrap(loc[t].intent)
            n == Len(mem.payments)
            r == mem'.payments[n + 1]
        IN  /\ Len(mem'.payments) = n + 1
            /\ SubSeq(mem'.payments, 1, n) = mem.payments
            /\ mem'.api_keys = mem.api_keys
            /\ r.id = intent.id
            /\ r.status = intent.status
            /\ r.status = "Pending"
            /\ r.created_at = r.updated_at
            /\ r.reference = None
            /\ r.amount_cents = request.amount_cents
            /\ r.currency = request.currency
            /\ r.user_id = request.user_id
            /\ r.tier = request.tier
            /\ DOMAIN r.metadata = DOMAIN request.metadata \cup {"user_id", "tier"}
            /\ r.metadata["user_id"] = request.user_id
            /\ r.metadata["tier"] = TierAsStr(request.tier)
            /\ \A k \in DOMAIN request.metadata \ {"user_id", "tier"} :
                  r.metadata[k] = request.metadata[k]

\* the create_checkout returns the intent whose id its record has
CheckoutReturnsIntent(t) ==
    CheckoutReturns(t) =>
        /\ res'[t] = [op |-> "create_checkout", kind |-> "Ok", val |-> loc[t].intent]
        /\ mem' = mem
        /\ HasPayment(mem', Unwrap(loc[t].intent).id)
        /\ PaymentById(mem', Unwrap(loc[t].intent).id) = Unwrap(loc[t].record)

\* C9: a successful create_checkout adds exactly one PaymentRecord, with the id
\* of the returned intent, the intent's status (Pending), created_at equal to
\* updated_at, no reference, the request's amount, currency, user_id and tier,
\* and the request's metadata with user_id and tier merged in; every other
\* record is unchanged.
C9_CheckoutRecord ==
    [][\A t \in Threads : CheckoutAdds(t) /\ CheckoutReturnsIntent(t)]_vars

\* a create_checkout whose request metadata held another user_id has returned,
\* and its record holds the request's user_id there
C9_CheckoutDone ==
    \E t \in Threads :
        /\ pc[t] = "done"
        /\ call[t].request = Some(ReqWePay)
        /\ res[t].op = "create_checkout"
        /\ res[t].kind = "Ok"
        /\ HasPayment(mem, Unwrap(res[t].val).id)
        /\ PaymentById(mem, Unwrap(res[t].val).id).metadata["user_id"] = U2
        /\ ReqWePay.metadata["user_id"] # U2

---------------------------------------------------------------------------
(* Properties of the keys: usage limits, concurrent use, revocation *)

\* the plaintext that was issued with a record: one draw gave both
PlaintextOf(record) ==
    build_key_string(RawKey(CHOOSE n \in 1..rng.key : random_identifier(n) = record.id))

\* thread t's validate_api_key runs its update in this step
ValidateUpdates(t) == pc[t] = "va_update" /\ pc'[t] # "va_update"

\* thread t's validate_api_key returns from its update in this step
ValidateReturns(t) == pc[t] = "va_update_locked" /\ pc'[t] = "done"

WithinLimit(k) == IsSome(k.usage_limit) => k.usage_count <= Unwrap(k.usage_limit)

\* the update of a validate_api_key on a live key with limit N: below N it
\* counts one use and will return the record; at N it fails with Validation and
\* leaves the state as it is
LimitedUpdate(t) ==
    LET id == Unwrap(loc[t].record_id)
        k == KeyById(mem, id)
    IN  (ValidateUpdates(t) /\ IsSome(k.usage_limit) /\ ~k.revoked) =>
            IF k.usage_count < Unwrap(k.usage_limit)
            THEN /\ pc'[t] = "va_update_locked"
                 /\ KeyById(mem', id).usage_count = k.usage_count + 1
                 /\ loc'[t].out = Some(KeyById(mem', id))
            ELSE /\ pc'[t] = "done"
                 /\ res'[t].op = "validate_api_key"
                 /\ res'[t].kind = "Validation"
                 /\ mem' = mem

\* a validate_api_key whose update went through returns Ok with the record
ValidateReturnsRecord(t) ==
    ValidateReturns(t) =>
        /\ res'[t] = [op |-> "validate_api_key", kind |-> "Ok", val |-> loc[t].out]
        /\ mem' = mem

\* C1: a key issued with usage_limit = N never has usage_count above N; a
\* validate_api_key on it succeeds and counts one use while usage_count < N, so
\* the N-th call from 0 leaves usage_count = N, and every call made at
\* usage_count = N fails with Validation and changes nothing (with N = 0, the
\* first one).
C1_UsageLimit ==
    /\ [](\A i \in 1..Len(mem.api_keys) : WithinLimit(mem.api_keys[i]))
    /\ [][\A t \in Threads : LimitedUpdate(t) /\ ValidateReturnsRecord(t)]_vars

\* a key used up to its limit MaxLimit, and a further validate_api_key with its
\* plaintext that has failed with Validation
C1_LimitReached ==
    \E i \in 1..Len(mem.api_keys), t \in Threads :
        LET k == mem.api_keys[i]
        IN  /\ k.usage_limit = Some(MaxLimit)
            /\ k.usage_count = MaxLimit
            /\ ~k.revoked
            /\ pc[t] = "done"
            /\ call[t].op = "validate_api_key"
            /\ call[t].candidate = PlaintextOf(k)
            /\ res[t].kind = "Validation"

\* every thread has made one call, a validate_api_key with k's plaintext, and
\* all have returned
AllValidated(k) ==
    /\ started = NumThreads
    /\ \A t \in Threads :
          /\ pc[t] = "done"
          /\ call[t].op = "validate_api_key"
          /\ call[t].candidate = PlaintextOf(k)

\* C2: when NumThreads threads each validate the same live key without a limit,
\* in any interleaving, every call succeeds and the key's usage_count ends at
\* its initial 0 plus NumThreads, each call having returned a different count.
C2_ConcurrentUse ==
    \A i \in 1..Len(mem.api_keys) :
        LET k == mem.api_keys[i]
        IN  (k.usage_limit = None /\ AllValidated(k)) =>
                /\ \A t \in Threads : res[t].kind = "Ok"
                /\ k.usage_count = NumThreads
                /\ {Unwrap(res[t].val).usage_count : t \in Threads} = 1..NumThreads

\* all threads have validated an unlimited key and it has counted them all
C2_AllCounted ==
    \E i \in 1..Len(mem.api_keys) :
        LET k == mem.api_keys[i]
        IN  /\ k.usage_limit = None
            /\ AllValidated(k)
            /\ k.usage_count = NumThreads
            /\ \A t \in Threads : res[t].kind = "Ok"

\* no candidate the callers hold verifies against a revoked record
RevokedNeverVerifies ==
    \A i \in 1..Len(mem.api_keys) :
        mem.api_keys[i].revoked =>
            \A candidate \in Candidates \cup {PlaintextOf(mem.api_keys[i])} :
                ~verify(candidate, mem.api_keys[i])

\* a revoked record stays revoked and keeps its usage_count
RevokedIsFinal ==
    \A i \in 1..Len(mem.api_keys) :
        mem.api_keys[i].revoked =>
            /\ mem'.api_keys[i].id = mem.api_keys[i].id
            /\ mem'.api_keys[i].revoked
            /\ mem'.api_keys[i].usage_count = mem.api_keys[i].usage_count

\* a validate_api_key that starts with the plaintext of a revoked key fails
\* with Validation at once
ValidateRevokedFails(t) ==
    (/\ Began(t)
     /\ call'[t].op = "validate_api_key"
     /\ \E i \in 1..Len(mem.api_keys) :
           /\ mem.api_keys[i].revoked
           /\ PlaintextOf(mem.api_keys[i]) = call'[t].candidate) =>
        /\ pc'[t] = "done"
        /\ res'[t].op = "validate_api_key"
        /\ res'[t].kind = "Validation"
        /\ mem' = mem

\* a validate_api_key that found the key before it was revoked and updates it
\* after fails with Validation and counts nothing
LateUpdateFails(t) ==
    (ValidateUpdates(t) /\ KeyById(mem, Unwrap(loc[t].record_id)).revoked) =>
        /\ pc'[t] = "done"
        /\ res'[t].op = "validate_api_key"
        /\ res'[t].kind = "Validation"
        /\ mem' = mem

\* C6: once revoke_api_key has marked a key revoked it stays revoked, verify is
\* false for it with every candidate whatever its usage_count and usage_limit,
\* every validate_api_key with its plaintext fails with Validation, its
\* usage_count never changes again, and a validate_api_key that found the key
\* before the revocation but updates after it fails with Validation without
\* counting a use.
C6_Revocation ==
    /\ []RevokedNeverVerifies
    /\ [][/\ RevokedIsFinal
          /\ \A t \in Threads : ValidateRevokedFails(t) /\ LateUpdateFails(t)]_vars

\* revoke_api_key has returned the revoked record while another thread, which
\* found the key when it was live, has yet to run its update
C6_RevokedBeforeUpdate ==
    \E t, u \in Threads :
        /\ pc[t] = "va_update"
        /\ pc[u] = "done"
        /\ res[u].op = "revoke_api_key"
        /\ res[u].kind = "Ok"
        /\ Unwrap(res[u].val).id = Unwrap(loc[t].record_id)
        /\ KeyById(mem, Unwrap(loc[t].record_id)).revoked

---------------------------------------------------------------------------
(* Properties of the credential manager *)

\* the forms of the plaintext of the n-th key: the key as handed to the caller,
\* its hexadecimal payload without prefix and hyphens, in either case
PlaintextForms(n) ==
    {build_key_string(RawKey(n)), to_hex_upper(RawKey(n)), to_hex(RawKey(n))}

\* a fresh record verifies its own plaintext and no other candidate
FreshVerifiesOwnOnly ==
    (probe.fn = "verify" /\ probe.stored = "fresh")
        => (probe.verified <=> probe.candidate = probe.issued.api_key)

\* no form of the plaintext occurs in the hashed_key of a fresh record
PlaintextNotStored ==
    (probe.fn # "none" /\ probe.stored = "fresh")
        => /\ probe.issued.api_key = build_key_string(RawKey(probe.n))
           /\ \A form \in PlaintextForms(probe.n) :
                 ~Contains(probe.issued.record.hashed_key, form)

\* a record with a malformed hashed_key verifies no candidate
MalformedVerifiesNothing ==
    (probe.fn = "verify" /\ probe.stored = "malformed") => ~probe.verified

\* C10: issue_key followed by verify is a round trip. For the fresh record and
\* plaintext issue_key returns, verify accepts the plaintext and rejects every
\* other candidate; the record's hashed_key contains the plaintext in no form;
\* and verify answers false, for every candidate, on a record whose hashed_key
\* is malformed.
C10_RoundTrip ==
    /\ FreshVerifiesOwnOnly
    /\ PlaintextNotStored
    /\ MalformedVerifiesNothing

\* verify has accepted the plaintext of a fresh record that is long enough to
\* hold it, and issue_key has drawn more than one key
C10_OwnKeyVerified ==
    /\ probe.fn = "verify"
    /\ probe.stored = "fresh"
    /\ probe.n > 1
    /\ probe.candidate = probe.issued.api_key
    /\ probe.verified
    /\ Len(probe.issued.record.hashed_key) >= Len(probe.issued.api_key)

---------------------------------------------------------------------------
(* Properties of the file: reloading, failed writes *)

\* the store is constructed again in this step
Reopened == Reopens' = Reopens + 1

\* a store constructed on the file a write has persisted holds the records of
\* the memory, each field for field, and would write the same file again
ReloadsPersisted ==
    (Reopened /\ file = Some(Serialize(mem))) =>
        /\ probe'.kind = "Ok"
        /\ mem'.payments = mem.payments
        /\ mem'.api_keys = mem.api_keys
        /\ Serialize(mem') = Unwrap(file)

\* a store constructed where there is no file holds the empty state
StartsEmpty ==
    (Reopened /\ file = None) => probe'.kind = "Ok" /\ mem' = EmptyState

\* C11: a state persisted by a store write and loaded by a new store on the
\* same path has the same PaymentRecords and the same ApiKeyRecords, equal
\* field for field, metadata as a mapping; a store constructed on a path with
\* no file starts from the empty state.
C11_Reload == [][ReloadsPersisted /\ StartsEmpty]_vars

\* the store has been constructed again on a file that holds a WePay payment
\* with metadata, a settled payment with a reference, and a key that has been
\* used, and holds what was persisted
C11_Reloaded ==
    /\ probe.fn = "new"
    /\ probe.kind = "Ok"
    /\ file = Some(Serialize(mem))
    /\ \E i \in 1..Len(mem.payments) :
          mem.payments[i].provider = "WePay" /\ DOMAIN mem.payments[i].metadata # {}
    /\ \E i \in 1..Len(mem.payments) : mem.payments[i].reference # None
    /\ \E i \in 1..Len(mem.api_keys) : mem.api_keys[i].last_used_at # None

---------------------------------------------------------------------------
(* Properties of the processors *)

\* C12: validate_webhook_signature is true exactly when no webhook secret is
\* configured, whatever the signature and the payload, or a secret is
\* configured, the signature equals it byte for byte and the payload is not
\* empty.
C12_Webhook ==
    probe.fn = "validate_webhook_signature" =>
        (probe.valid <=>
            \/ probe.secret = None
            \/ /\ probe.secret # None
               /\ probe.signature = Unwrap(probe.secret)
               /\ probe.payload # <<>>)

\* the check has accepted a signature equal to a secret of MaxSecretLen
\* characters, on a payload that is not empty
C12_SignatureAccepted ==
    /\ probe.fn = "validate_webhook_signature"
    /\ probe.secret # None
    /\ Len(Unwrap(probe.secret)) = MaxSecretLen
    /\ probe.signature = Unwrap(probe.secret)
    /\ probe.payload # <<>>
    /\ probe.valid

---------------------------------------------------------------------------
(* Properties of the keys under contention *)

\* the threads that have validated with k's plaintext and returned
ValidatedBy(k) ==
    {t \in Threads : /\ pc[t] = "done"
                     /\ call[t].op = "validate_api_key"
                     /\ call[t].candidate = PlaintextOf(k)}

\* the calls made so far are one validate_api_key with k's plaintext by each of
\* some threads, and all have returned
OnlyValidated(k) ==
    /\ ValidatedBy(k) # {}
    /\ started = Cardinality(ValidatedBy(k))
    /\ \A t \in Threads \ ValidatedBy(k) : pc[t] = "idle"

\* C13: when M threads each validate the same live key of usage_limit N and
\* usage_count 0, in any interleaving, min(M, N) of the calls succeed and the
\* others fail with Validation, the successful calls return the counts
\* 1..min(M, N), each once, and the key's usage_count ends at min(M, N).
C13_LimitRace ==
    \A i \in 1..Len(mem.api_keys) :
        LET k == mem.api_keys[i]
            callers == ValidatedBy(k)
            succeeded == {t \in callers : res[t].kind = "Ok"}
            least == Min({Cardinality(callers), Unwrap(k.usage_limit)})
        IN  (IsSome(k.usage_limit) /\ OnlyValidated(k)) =>
                /\ Cardinality(succeeded) = least
                /\ \A t \in callers \ succeeded : res[t].kind = "Validation"
                /\ {Unwrap(res[t].val).usage_count : t \in succeeded} = 1..least
                /\ \A t, u \in succeeded :
                      Unwrap(res[t].val).usage_count = Unwrap(res[u].val).usage_count => t = u
                /\ k.usage_count = least
                /\ ~k.revoked

\* every thread has validated a key of limit 1: one call has succeeded and the
\* others have failed with Validation
C13_OneWinner ==
    \E i \in 1..Len(mem.api_keys) :
        LET k == mem.api_keys[i]
        IN  /\ k.usage_limit = Some(1)
            /\ OnlyValidated(k)
            /\ ValidatedBy(k) = Threads
            /\ Cardinality({t \in Threads : res[t].kind = "Ok"}) = 1
            /\ \A t \in Threads : res[t].kind \in {"Ok", "Validation"}
            /\ k.usage_count = 1

---------------------------------------------------------------------------
(* Properties of settle_payment among other calls *)

\* BillingService::list_state can take the read lock: no writer holds the lock
Observable == lock.writer = None

\* the key a payment's metadata names exists and belongs to the payment
KeyIdResolves(state, p) ==
    "api_key_id" \in DOMAIN p.metadata =>
        /\ HasKey(state, p.metadata["api_key_id"])
        /\ KeyById(state, p.metadata["api_key_id"]).payment_id = p.id

\* C14: in every state list_state can observe, a payment whose metadata holds
\* api_key_id = k comes with an ApiKeyRecord of id k whose payment_id is the
\* payment's id.
C14_KeyIdsResolve ==
    Observable => \A i \in 1..Len(mem.payments) : KeyIdResolves(mem, mem.payments[i])

\* the same, in the states where no call is in progress
C14_KeyIdsResolveAtRest ==
    (\A t \in Threads : ~Busy(pc[t])) =>
        \A i \in 1..Len(mem.payments) : KeyIdResolves(mem, mem.payments[i])

\* settle_payment run from start to end on state, its writes succeeding
\* (service.rs:116-134): the key is the n-th one issued
SettleAlone(state, c, n, now) ==
    LET updated == update_payment(state, c.payment_id,
                       [fn |-> "settle", reference |-> c.reference, now |-> now])
        si == settle_issue(Unwrap(updated.out.val), c.usage_limit, n, now)
    IN  upsert_api_key(upsert_payment(updated.state, si.payment).state,
                       si.issued.record).state

\* mark_payment_failed run from start to end on state (service.rs:138-146)
FailAlone(state, c, now) ==
    update_payment(state, c.payment_id,
        [fn |-> "fail", reason |-> c.reason, now |-> now]).state

\* a payment record but for the time of its last update
Timeless(p) == [p EXCEPT !.updated_at = 0]

\* the state the service was constructed on, told by the number of its keys
StartedOn(keys) == CHOOSE s \in LoadableStates : Len(s.api_keys) = keys

\* t's settle_payment and u's mark_payment_failed, the only calls so far, have
\* both returned Ok for the same payment
SettledAndFailed(t, u) ==
    /\ started = 2
    /\ pc[t] = "done" /\ res[t].op = "settle_payment" /\ res[t].kind = "Ok"
    /\ pc[u] = "done" /\ res[u].op = "mark_payment_failed" /\ res[u].kind = "Ok"
    /\ call[t].payment_id = call[u].payment_id

\* C15: after a settle_payment and a mark_payment_failed on the same payment,
\* however their steps interleave, the payment's record is the one that one of
\* the two orders of running them one after the other leaves.
C15_SettleFailSerial ==
    \A t, u \in Threads :
        SettledAndFailed(t, u) =>
            LET s0 == StartedOn(Len(mem.api_keys) - 1)
                n == Len(mem.api_keys)
                id == call[t].payment_id
            IN  Timeless(PaymentById(mem, id)) \in
                    { Timeless(PaymentById(FailAlone(SettleAlone(s0, call[t], n, 0),
                                                     call[u], 0), id)),
                      Timeless(PaymentById(SettleAlone(FailAlone(s0, call[u], 0),
                                                       call[t], n, 0), id)) }

---------------------------------------------------------------------------
(* Properties of the key records over time *)

\* in this step the key record of id keeps its count or raises it, and stays
\* revoked if it was
KeyGoesForward(id) ==
    /\ HasKey(mem', id)
    /\ KeyById(mem', id).usage_count >= KeyById(mem, id).usage_count
    /\ KeyById(mem, id).revoked => KeyById(mem', id).revoked

\* C16: whatever the operations and however they interleave, no ApiKeyRecord's
\* usage_count ever decreases and none goes from revoked back to not revoked.
C16_KeysGoForward ==
    [][\A i \in 1..Len(mem.api_keys) : KeyGoesForward(mem.api_keys[i].id)]_vars

\* a key was revoked, and a later validate_api_key found it revoked
C16_RevokedRefused ==
    \E t, u \in Threads, i \in 1..Len(mem.api_keys) :
        /\ pc[t] = "done" /\ res[t].op = "revoke_api_key" /\ res[t].kind = "Ok"
        /\ pc[u] = "done" /\ res[u].op = "validate_api_key" /\ res[u].kind = "Validation"
        /\ caller = Some(u)
        /\ mem.api_keys[i].id = call[t].record_id
        /\ mem.api_keys[i].revoked

---------------------------------------------------------------------------
(* Properties of a store write whose file write fails *)

\* the file does not hold the state in memory
Differ == file # Some(Serialize(mem))

\* in this step the persist of t's store write fails
PersistFails(t) == AtLocked(t) /\ faults' = faults + 1

\* in this step the persist of t's store write succeeds
PersistSucceeds(t) == AtLocked(t) /\ ~AtLocked(t)' /\ faults' = faults

\* state holds the record that the mutator of t's write in progress left
HoldsMutation(state, t) ==
    LET site == SiteOf(pc[t])
    IN  CASE site = "cc_upsert" ->
                Unwrap(loc[t].record) \in {state.payments[i] : i \in 1..Len(state.payments)}
          [] site \in {"sp_update", "mf_update"} ->
                Unwrap(loc[t].out) \in {state.payments[i] : i \in 1..Len(state.payments)}
          [] site = "sp_upsert_payment" ->
                Unwrap(loc[t].payment) \in {state.payments[i] : i \in 1..Len(state.payments)}
          [] site = "sp_upsert_key" ->
                Unwrap(loc[t].issued).record \in {state.api_keys[i] : i \in 1..Len(state.api_keys)}
          [] site \in {"va_update", "rv_update"} ->
                Unwrap(loc[t].out) \in {state.api_keys[i] : i \in 1..Len(state.api_keys)}

\* a failed persist ends the call with Io, the mutation still in memory
NoRollback ==
    \A t \in Threads :
        PersistFails(t) =>
            /\ pc'[t] = "done"
            /\ res'[t] = [op |-> call[t].op, kind |-> "Io", val |-> <<>>]
            /\ mem' = mem
            /\ HoldsMutation(mem', t)

\* in this step t's store write ends, its persist having written the file in
\* full: the write succeeds, or fails at sync_all only (store.rs:87-88)
PersistWrites(t) == AtLocked(t) /\ ~AtLocked(t)' /\ file' = Some(Serialize(mem))

\* nothing but the persist of a store write changes the file
FileByPersist == file' # file => \E t \in Threads : AtLocked(t) /\ ~AtLocked(t)'

\* file and memory come to agree only at the end of a successful write
AgreeBySuccess == (Differ /\ ~Differ') => \E t \in Threads : PersistSucceeds(t)

\* while memory stays as it is, file and memory come to agree only by a persist
\* that writes the file
AgreeByPersist ==
    (Differ /\ ~Differ' /\ mem' = mem) => \E t \in Threads : PersistWrites(t)

\* every successful persist makes them agree
SuccessAgrees == \A t \in Threads : PersistSucceeds(t) => ~Differ'

\* the validations of key k that returned Ok, or Io after their update
CountedUses(k) == {t \in ValidatedBy(k) : res[t].kind \in {"Ok", "Io"}}

\* a use whose file write failed is in the key's usage_count all the same
IoCountsAsUse ==
    \A i \in 1..Len(mem.api_keys) :
        Cardinality(CountedUses(mem.api_keys[i])) <= mem.api_keys[i].usage_count

\* C17: a store write whose file write fails after its mutator succeeded
\* returns Io and leaves the mutation in memory; later validations go by the
\* unpersisted change; file and memory agree again only after the next
\* successful write.
C17_AgreeAfterSuccessOnly ==
    /\ [][NoRollback /\ AgreeBySuccess /\ SuccessAgrees]_vars
    /\ []IoCountsAsUse

\* C17, amended: a store write whose file write fails after its mutator
\* succeeded returns Io and leaves the mutation in memory; later validations go
\* by the unpersisted change; only the persist of a store write changes the
\* file, every successful write makes file and memory agree, and while memory
\* stays as it is they come to agree only by a persist that wrote the file in
\* full.
C17_NoRollback ==
    /\ [][NoRollback /\ FileByPersist /\ AgreeByPersist /\ SuccessAgrees]_vars
    /\ []IoCountsAsUse

\* a validate_api_key returned Io; the file still shows the key unused; a later
\* validate_api_key of the same key was refused for the limit
C17_UnpersistedUseRefuses ==
    \E t, u \in Threads, i \in 1..Len(mem.api_keys) :
        /\ t \in ValidatedBy(mem.api_keys[i]) /\ res[t].kind = "Io"
        /\ u \in ValidatedBy(mem.api_keys[i]) /\ res[u].kind = "Validation"
        /\ caller = Some(u)
        /\ mem.api_keys[i].usage_count = 1
        /\ file = Some(Serialize([mem EXCEPT !.api_keys[i].usage_count = 0,
                                             !.api_keys[i].last_used_at = None]))

---------------------------------------------------------------------------
(* Properties of a refused validate_api_key *)

\* in this step thread t's validate_api_key returns Validation
ValidateRefused(t) ==
    /\ pc[t] # "done" \/ (started' # started /\ caller' = Some(t))
    /\ pc'[t] = "done"
    /\ res'[t] = [op |-> "validate_api_key", kind |-> "Validation", val |-> <<>>]

\* in this step thread t's validate_api_key scans the keys under the read lock
\* and finds one
ValidateFinds(t) == pc[t] # "va_update" /\ pc'[t] = "va_update"

\* in this step thread t calls validate_api_key with a candidate that no record
\* verifies
ValidateUnknown(t) ==
    /\ started' # started
    /\ caller' = Some(t)
    /\ call'[t].op = "validate_api_key"
    /\ find_record_id(mem, call'[t].candidate) = None

\* C18: a validate_api_key refused for a business reason (no record matches,
\* the record is revoked, the limit is reached) changes no record and does not
\* rewrite the file, in any of its steps; with an unknown candidate it returns
\* from the scan, never reaching the write lock.
C18_RefusalChangesNothing ==
    [][\A t \in Threads :
          /\ ValidateRefused(t) \/ ValidateFinds(t) =>
                mem' = mem /\ file' = file /\ lock' = lock
          /\ ValidateUnknown(t) => ValidateRefused(t)]_vars

\* one validate_api_key was refused for the limit, the key's count at its limit
\* and the file as memory; another was refused for an unknown candidate
C18_RefusedLimitAndUnknown ==
    \E t, u \in Threads, i \in 1..Len(mem.api_keys) :
        LET k == mem.api_keys[i]
        IN  /\ t \in ValidatedBy(k) /\ res[t].kind = "Validation"
            /\ ~k.revoked /\ k.usage_limit = Some(k.usage_count) /\ k.usage_count > 0
            /\ pc[u] = "done" /\ call[u].op = "validate_api_key"
            /\ call[u].candidate = UnknownKey /\ res[u].kind = "Validation"
            /\ file = Some(Serialize(mem))

---------------------------------------------------------------------------
(* Checkouts only, next to the processors called on their own *)

\* amount 0 for the disabled provider
ReqDisabledZero == [ReqDisabled EXCEPT !.amount_cents = 0]
CheckoutRequests == Requests \cup {ReqDisabledZero}

\* HostedCheckoutProcessor::create_payment_intent called on the processor of
\* config, outside the service
ProbeIntent(config, request) ==
    /\ probe' = [fn |-> "create_payment_intent", config |-> config, request |-> request,
                 kind |-> create_payment_intent(config, request, rng.pay + 1).kind]
    /\ ProbeStill

\* Callers run create_checkout; the processors are called on their own too
NextCheckout ==
    \/ \E t \in Callers :
          \/ /\ started < MaxCalls
             /\ \E request \in CheckoutRequests : CallCreateCheckout(t, request)
             /\ Track(t)
          \/ WriteApply(t) /\ Track(t)
          \/ WritePersist(t) /\ Track(t)
    \/ \E i \in 1..Len(ProviderConfigs), request \in {ReqStripe, ReqZero} :
          ProbeIntent(ProviderConfigs[i], request)

SpecCheckout == Init /\ [][NextCheckout]_vars

---------------------------------------------------------------------------
(* Properties of a disabled provider *)

\* thread t calls create_checkout for a registered, disabled provider in this
\* step
CheckoutDisabled(t) ==
    /\ Began(t)
    /\ call'[t].op = "create_checkout"
    /\ Registered(Unwrap(call'[t].request))
    /\ ~Enabled(Unwrap(call'[t].request))

\* the processor of a disabled configuration answers ProviderUnavailable,
\* whatever the amount
DisabledFirst ==
    (probe.fn = "create_payment_intent" /\ ~probe.config.enabled) =>
        probe.kind = "ProviderUnavailable"

\* C19: create_checkout for a registered but disabled provider fails with
\* Validation and creates no PaymentRecord; the processor itself answers
\* ProviderUnavailable for a disabled provider before it looks at the amount,
\* so also for amount 0.
C19_DisabledProvider ==
    /\ [][\A t \in Threads : CheckoutDisabled(t) => Rejected(t, "Validation")]_vars
    /\ []DisabledFirst

\* create_checkout with amount 0 for the disabled provider has returned
\* Validation, no payment was added, and the disabled processor called with
\* amount 0 has answered ProviderUnavailable
C19_DisabledZeroBoth ==
    \E t \in Threads :
        /\ pc[t] = "done" /\ call[t].request = Some(ReqDisabledZero)
        /\ res[t] = [op |-> "create_checkout", kind |-> "Validation", val |-> <<>>]
        /\ mem \in {EmptyState} \cup LoadableStates
        /\ probe.fn = "create_payment_intent"
        /\ ~probe.config.enabled /\ probe.request.amount_cents = 0
        /\ probe.kind = "ProviderUnavailable"

---------------------------------------------------------------------------
(* Panics inside the store's critical sections. std::sync::RwLock is        *)
(* poisoned when a thread panics while holding the write guard, and is not  *)
(* when it panics while holding a read guard; on a poisoned lock read() and *)
(* write() return Err, and the expect of store.rs:34 and store.rs:45        *)
(* panics. A thread that panicked is gone: it returns nothing.              *)

\* where a thread ends that panicked: inside a read or a write critical
\* section, or at the expect on the poisoned lock
PanicSites == {"panicked_in_read", "panicked_in_write", "panicked_on_poison"}

\* thread t unwinds, ending at p
Unwind(t, p) ==
    /\ pc' = [pc EXCEPT ![t] = p]
    /\ res' = [res EXCEPT ![t] = NoResult]
    /\ loc' = [loc EXCEPT ![t] = NoLoc]

\* BillingStore::write: the thread panics holding the write guard, after the
\* mutator, before or while persist writes the file; dropping the guard in the
\* unwinding poisons the lock
PanicInWriteNoPoison(t) ==
    /\ AtLocked(t)
    /\ file' \in {file, Some(Partial(Serialize(mem)))}
    /\ lock' = [writer |-> None, poisoned |-> FALSE]
    /\ Unwind(t, "panicked_in_write")
    /\ UNCHANGED <<mem, call, rng, clock, started, probe>>
PanicInWrite(t) ==
    /\ AtLocked(t)
    /\ file' \in {file, Some(Partial(Serialize(mem)))}
    /\ lock' = [writer |-> None, poisoned |-> TRUE]
    /\ Unwind(t, "panicked_in_write")
    /\ UNCHANGED <<mem, call, rng, clock, started, probe>>

\* BillingStore::read: validate_api_key's scan panics holding a read guard; the
\* lock is not poisoned
PanicInRead(t, candidate) ==
    /\ Begin(t, [NoCall EXCEPT !.op = "validate_api_key", !.candidate = candidate])
    /\ lock.writer = None
    /\ ~lock.poisoned
    /\ Unwind(t, "panicked_in_read")
    /\ UNCHANGED <<mem, file, lock, rng, clock, probe>>

\* a call whose first step is a store read or write, started on the poisoned
\* lock: the expect panics
StartOnPoisoned(t, c) ==
    /\ lock.poisoned
    /\ Begin(t, c)
    /\ Unwind(t, "panicked_on_poison")
    /\ UNCHANGED <<mem, file, lock, rng, clock, probe>>

\* a call that comes to a store write on the poisoned lock: the expect panics
WriteOnPoisoned(t) ==
    /\ lock.poisoned
    /\ pc[t] \in WriteSites
    /\ Unwind(t, "panicked_on_poison")
    /\ UNCHANGED <<mem, file, lock, call, rng, clock, started, probe>>

\* the calls that start with a store access, on the records there are
StoreCalls ==
    {[NoCall EXCEPT !.op = "settle_payment", !.payment_id = id, !.reference = Some(Ref1),
                    !.usage_limit = Some(1)] : id \in PaymentIdArgs \ {MissingPaymentId}}
    \cup {[NoCall EXCEPT !.op = "mark_payment_failed", !.payment_id = id, !.reason = Reason] :
              id \in PaymentIdArgs \ {MissingPaymentId}}
    \cup {[NoCall EXCEPT !.op = "validate_api_key", !.candidate = c] :
              c \in Candidates \ {UnknownKey}}
    \cup {[NoCall EXCEPT !.op = "revoke_api_key", !.record_id = id] :
              id \in KeyIdArgs \ {MissingKeyId}}

\* Threads run the operations on the records there are, within one second of
\* the clock; a critical section may panic
NextPanics ==
    \E t \in Threads :
        \/ /\ started < MaxCalls
           /\ CallCreateCheckout(t, ReqStripe)
           /\ TrackFaults(t)
        \/ /\ started < MaxCalls
           /\ \E c \in StoreCalls :
                 \/ c.op = "settle_payment" /\
                        CallSettlePayment(t, c.payment_id, c.reference, c.usage_limit)
                 \/ c.op = "mark_payment_failed" /\
                        CallMarkPaymentFailed(t, c.payment_id, c.reason)
                 \/ c.op = "validate_api_key" /\ CallValidateApiKey(t, c.candidate)
                 \/ c.op = "revoke_api_key" /\ CallRevokeApiKey(t, c.record_id)
           /\ TrackFaults(t)
        \/ WriteApply(t) /\ TrackFaults(t)
        \/ WritePersist(t) /\ TrackFaults(t)
        \/ SettleIssue(t) /\ TrackFaults(t)
        \/ PanicInWrite(t) /\ TrackFaults(t)
        \/ /\ started < MaxCalls
           /\ \E candidate \in Candidates \ {UnknownKey} : PanicInRead(t, candidate)
           /\ TrackFaults(t)
        \/ /\ started < MaxCalls
           /\ \E c \in StoreCalls : StartOnPoisoned(t, c)
           /\ TrackFaults(t)
        \/ WriteOnPoisoned(t) /\ TrackFaults(t)

SpecPanics == Init /\ [][NextPanics]_vars

---------------------------------------------------------------------------
(* Properties of the poisoned lock *)

\* in this step thread t goes on without passing a store read or write: the
\* start of create_checkout, with the processor's answer, and settle_payment's
\* issuing of the key
NoStoreAccess(t) ==
    \/ pc'[t] \in {"cc_upsert", "sp_upsert_payment"}
    \/ pc'[t] = "done" /\ res'[t].op = "create_checkout"

\* no store read or write returns in this step, and state, file and lock stay
\* as they are
StoreFails ==
    /\ mem' = mem
    /\ file' = file
    /\ lock' = lock
    /\ \A t \in Threads :
          pc'[t] # pc[t] => pc'[t] = "panicked_on_poison" \/ NoStoreAccess(t)

\* a panic inside a write critical section poisons the lock
WritePanicPoisons ==
    \A t \in Threads :
        (pc[t] # "panicked_in_write" /\ pc'[t] = "panicked_in_write") => lock'.poisoned

\* C20: once a critical section, of a read or of a write, has panicked holding
\* the store lock, every later store read and write fails: none returns, none
\* touches state or file, ever.
C20_AnyPanicIsFatal ==
    [][(\E u \in Threads : pc[u] \in {"panicked_in_read", "panicked_in_write"})
          => StoreFails]_vars

\* C20, amended: once a write critical section has panicked holding the
\* exclusive lock, the lock is poisoned and every later store read and write
\* fails: none returns, none touches state or file, ever.
C20_WritePanicIsFatal ==
    [][/\ WritePanicPoisons
       /\ (\E u \in Threads : pc[u] = "panicked_in_write") => StoreFails]_vars

\* a write critical section panicked with its mutation in memory and not in the
\* file, and a later call of another thread died at the expect
C20_PoisonedAndRefused ==
    \E t, u \in Threads :
        /\ pc[t] = "panicked_in_write"
        /\ pc[u] = "panicked_on_poison"
        /\ lock.poisoned
        /\ Differ

---------------------------------------------------------------------------
(* Every call returns. The threads are scheduled fairly: a step that needs *)
(* no lock is taken if it stays possible; the lock is fair, so a thread    *)
(* that finds it free again and again gets it; a write that holds the lock *)
(* ends its persist, with or without an error.                             *)

\* thread t's store write ends: persist has succeeded or failed
PersistEnds(t) ==
    \/ WritePersist(t) /\ TrackFaults(t)
    \/ /\ faults < MaxFaults
       /\ WritePersistFails(t)
       /\ History(t)
       /\ faults' = faults + 1

\* thread t's settle_payment issues its key: the step SettleIssue(t), told by
\* the positions alone; it is possible whenever t is at sp_issue
IssueStep(t) ==
    /\ pc[t] = "sp_issue"
    /\ pc' = [pc EXCEPT ![t] = "sp_upsert_payment"]

FairThread(t) ==
    /\ SF_vars(WriteApply(t) /\ TrackFaults(t))
    /\ WF_pc(IssueStep(t))
    /\ WF_vars(PersistEnds(t))

SpecLive == SpecFaults /\ \A t \in Callers : FairThread(t)

\* the thread that holds the write lock is inside its write, past the mutator,
\* and nowhere it would take the lock again
HolderPersists == \A t \in Threads : lock.writer = Some(t) <=> AtLocked(t)

\* some step of a thread in a call is possible
CanGoOn(t) ==
    \/ ENABLED (WriteApply(t) /\ TrackFaults(t))
    \/ ENABLED IssueStep(t)
    \/ ENABLED (WritePersist(t) /\ TrackFaults(t))

\* no state in which every thread in a call waits
NoDeadlock ==
    (\E t \in Threads : Busy(pc[t])) => \E t \in Threads : Busy(pc[t]) /\ CanGoOn(t)

\* C21: with threads calling the service concurrently and a fair lock, every
\* call returns a value or an error; no thread takes the store lock while it
\* holds it, and no deadlock state is reachable.
C21_EveryCallReturns ==
    /\ \A t \in Threads : Busy(pc[t]) ~> pc[t] = "done"
    /\ [](HolderPersists /\ NoDeadlock)

\* one thread holds the write lock while the other, in a call of its own, waits
\* for it
C21_WaitingForLock ==
    \E t, u \in Threads :
        /\ lock.writer = Some(t)
        /\ pc[u] \in WriteSites

---------------------------------------------------------------------------
(* Properties of mark_payment_failed *)

\* in this step the updater of thread t's mark_payment_failed runs on the
\* payment it found
FailApplies(t) ==
    /\ pc[t] # "mf_update_locked"
    /\ pc'[t] = "mf_update_locked"

\* the step changes payment id to Failed with the reason, stamps it with the
\* time of the step, and changes nothing else
FailsOnly(id, reason) ==
    LET i == IndexOfId(mem.payments, id)
    IN  /\ i # 0
        /\ Len(mem'.payments) = Len(mem.payments)
        /\ mem'.payments[i] =
              [mem.payments[i] EXCEPT
                  !.status = "Failed",
                  !.metadata = MapInsert(@, "failure_reason", reason),
                  !.updated_at = clock']
        /\ \A j \in 1..Len(mem.payments) : j # i => mem'.payments[j] = mem.payments[j]
        /\ mem'.api_keys = mem.api_keys

\* every live key of payment id still verifies its plaintext after the step
KeysStillVerify(id) ==
    \A k \in KeysOf(mem, id) :
        ~KeyById(mem, k).revoked =>
            verify(PlaintextOf(KeyById(mem, k)), KeyById(mem', k))

\* C22: mark_payment_failed on an existing payment, whatever its status, sets
\* the status to Failed and failure_reason to the reason (and stamps
\* updated_at); no other field of the payment, no other payment and no
\* ApiKeyRecord changes, so a key issued for the payment stays live and keeps
\* validating.
C22_FailFrame ==
    [][\A t \in Threads :
          FailApplies(t) =>
              /\ FailsOnly(call'[t].payment_id, call'[t].reason)
              /\ KeysStillVerify(call'[t].payment_id)]_vars

\* a settled payment was marked failed, and a later validate_api_key with the
\* key issued for it returned Ok
C22_FailedStillValidates ==
    \E t, u \in Threads, i \in 1..Len(mem.api_keys) :
        LET k == mem.api_keys[i]
        IN  /\ pc[t] = "done" /\ res[t].op = "mark_payment_failed" /\ res[t].kind = "Ok"
            /\ call[t].payment_id = k.payment_id
            /\ PaymentById(mem, k.payment_id).status = "Failed"
            /\ "api_key_id" \in DOMAIN PaymentById(mem, k.payment_id).metadata
            /\ u \in ValidatedBy(k) /\ res[u].kind = "Ok"
            /\ caller = Some(u)
            /\ ~k.revoked /\ k.usage_count = 1

---------------------------------------------------------------------------
(* Properties of settle_payment on a payment of any status *)

\* in this step thread t's settle_payment is called for a payment there is
SettleCalled(t) ==
    /\ Began(t)
    /\ call'[t].op = "settle_payment"
    /\ HasPayment(mem, call'[t].payment_id)

\* in this step thread t's settle_payment runs the mutator of upsert_payment
SettleUpsertsPayment(t) ==
    pc[t] = "sp_upsert_payment" /\ pc'[t] = "sp_upsert_payment_locked"

\* in this step thread t's settle_payment runs the mutator of upsert_api_key
SettleUpsertsKey(t) == pc[t] = "sp_upsert_key" /\ pc'[t] = "sp_upsert_key_locked"

\* the key id a payment's metadata names, if any
NamedKey(state, id) ==
    IF "api_key_id" \in DOMAIN PaymentById(state, id).metadata
    THEN Some(PaymentById(state, id).metadata["api_key_id"])
    ELSE None

\* what each step of a settle_payment does, whatever the payment's status
SettleAnyStatus(t) ==
    /\ SettleCalled(t) =>
          /\ pc'[t] = "sp_update_locked"
          /\ PaymentById(mem', call'[t].payment_id).status = "Succeeded"
          /\ mem'.api_keys = mem.api_keys
    /\ SettleUpsertsPayment(t) =>
          /\ PaymentById(mem', call[t].payment_id).status = "Succeeded"
          /\ NamedKey(mem', call[t].payment_id) = Some(Unwrap(loc[t].issued).record.id)
          /\ mem'.api_keys = mem.api_keys
    /\ SettleUpsertsKey(t) =>
          /\ mem'.api_keys = Append(mem.api_keys, Unwrap(loc[t].issued).record)
          /\ ~Unwrap(loc[t].issued).record.revoked
          /\ Unwrap(loc[t].issued).record.payment_id = call[t].payment_id
          /\ ~HasKey(mem, Unwrap(loc[t].issued).record.id)
          /\ mem'.payments = mem.payments

\* key records are added by the upsert_api_key of a settle_payment only, and the
\* key a payment names is set by the upsert_payment of a settle_payment only
OnlySettleAdds ==
    /\ Len(mem'.api_keys) # Len(mem.api_keys) => \E t \in Threads : SettleUpsertsKey(t)
    /\ \A i \in 1..Len(mem.payments) :
          NamedKey(mem', mem.payments[i].id) # NamedKey(mem, mem.payments[i].id) =>
              \E t \in Threads : SettleUpsertsPayment(t)

\* threads t and u have both returned Ok from a settle_payment of one payment
BothSettled(t, u) ==
    /\ t # u
    /\ pc[t] = "done" /\ res[t].op = "settle_payment" /\ res[t].kind = "Ok"
    /\ pc[u] = "done" /\ res[u].op = "settle_payment" /\ res[u].kind = "Ok"
    /\ call[t].payment_id = call[u].payment_id

\* two settlements of one payment have left two key records of that payment,
\* and the payment names one of the two
TwoSettlementsTwoKeys ==
    \A t, u \in Threads :
        BothSettled(t, u) =>
            LET kt == Unwrap(res[t].val).record.id
                ku == Unwrap(res[u].val).record.id
                id == call[t].payment_id
            IN  /\ kt # ku
                /\ {kt, ku} \subseteq KeysOf(mem, id)
                /\ NamedKey(mem, id) \in {Some(kt), Some(ku)}

\* C23: settle_payment does not look at the payment's status: called on an
\* existing payment it sets the status to Succeeded and adds one new live key
\* record, the earlier keys staying as they are; k settlements of a payment
\* leave k key records of it, and the payment's api_key_id names the key of the
\* settlement whose upsert_payment ran last.
C23_SettleAnyStatus ==
    /\ [][OnlySettleAdds /\ \A t \in Threads : SettleAnyStatus(t)]_vars
    /\ []TwoSettlementsTwoKeys

\* a payment settled before, with its key, was settled again by both threads:
\* three live key records of it, the first as it was loaded
C23_SettledThrice ==
    \E t, u \in Threads :
        /\ BothSettled(t, u)
        /\ Cardinality(KeysOf(mem, call[t].payment_id)) = 3
        /\ mem.api_keys[1] = LoadedSettled(Some(1)).api_keys[1]
        /\ PaymentById(mem, call[t].payment_id).status = "Succeeded"

---------------------------------------------------------------------------
(* The store's four derived operations on their own, with records of ids   *)
(* that are there and that are not. Only mem and probe change.             *)

\* the ids records are upserted and updated with
StorePaymentIds == {"stripe_01", "stripe_02", MissingPaymentId}
StoreKeyIds == {"key_01", "key_02", MissingKeyId}

\* payment records of those ids, Pending and Failed
StorePayments ==
    {[LoadedPending.payments[1] EXCEPT !.id = id, !.status = st] :
        id \in StorePaymentIds \ {MissingPaymentId}, st \in {"Pending", "Failed"}}

\* key records of those ids, unused and used once
StoreKeys ==
    {[LoadedSettled(Some(1)).api_keys[1] EXCEPT !.id = id, !.usage_count = n] :
        id \in StoreKeyIds \ {MissingKeyId}, n \in {0, 1}}

\* the updaters the service passes
PaymentUpdaters ==
    {[fn |-> "settle", reference |-> Some(Ref1), now |-> clock],
     [fn |-> "fail", reason |-> Reason, now |-> clock]}
KeyUpdaters == {[fn |-> "validate", now |-> clock], [fn |-> "revoke", now |-> clock]}

\* one of the four operations runs its mutator on the state
StoreStep(fn, id, r) ==
    /\ mem' = r.state
    /\ probe' = [fn |-> fn, id |-> id, kind |-> r.out.kind]
    /\ UNCHANGED <<file, lock, pc, call, loc, res, rng, clock, started, faults, caller,
                   alone>>

NextStore ==
    \/ \E record \in StorePayments :
          StoreStep("upsert_payment", record.id, upsert_payment(mem, record))
    \/ \E record \in StoreKeys :
          StoreStep("upsert_api_key", record.id, upsert_api_key(mem, record))
    \/ \E id \in StorePaymentIds, updater \in PaymentUpdaters :
          StoreStep("update_payment", id, update_payment(mem, id, updater))
    \/ \E id \in StoreKeyIds, updater \in KeyUpdaters :
          StoreStep("update_api_key", id, update_api_key(mem, id, updater))

SpecStore == Init /\ [][NextStore]_vars

---------------------------------------------------------------------------
(* Properties of the record ids *)

\* no two records of a sequence share an id
Distinct(records) ==
    \A i, j \in 1..Len(records) : i # j => records[i].id # records[j].id

UniqueIds == Distinct(mem.payments) /\ Distinct(mem.api_keys)

\* the ids of a sequence of records, in order
IdsOf(records) == [i \in 1..Len(records) |-> records[i].id]

\* the step turns before into after as an upsert of a record of id does: the
\* record of that id replaced where it is, or one record of that id appended
\* when there is none
Upserted(before, after, id) ==
    IF IndexOfId(before, id) # 0
    THEN /\ IdsOf(after) = IdsOf(before)
         /\ \A i \in 1..Len(before) : i # IndexOfId(before, id) => after[i] = before[i]
    ELSE /\ Len(after) = Len(before) + 1
         /\ \A i \in 1..Len(before) : after[i] = before[i]
         /\ after[Len(after)].id = id

\* what each of the four operations does to the two sequences
KeepsIds ==
    /\ probe'.fn = "upsert_payment" =>
          Upserted(mem.payments, mem'.payments, probe'.id) /\ mem'.api_keys = mem.api_keys
    /\ probe'.fn = "upsert_api_key" =>
          Upserted(mem.api_keys, mem'.api_keys, probe'.id) /\ mem'.payments = mem.payments
    /\ probe'.fn \in {"update_payment", "update_api_key"} =>
          /\ IdsOf(mem'.payments) = IdsOf(mem.payments)
          /\ IdsOf(mem'.api_keys) = IdsOf(mem.api_keys)

\* C24: from a state whose ids are pairwise distinct, no sequence of
\* upsert_payment, upsert_api_key, update_payment and update_api_key makes two
\* records of a collection share an id; an upsert with an id that is there
\* replaces that record where it is, the length unchanged, and an upsert with
\* a new id appends exactly one record.
C24_UniqueIds == []UniqueIds /\ [][KeepsIds]_vars

\* both collections hold two records, the first of each replaced since by an
\* upsert or changed by an update
C24_ReplacedInPlace ==
    /\ Len(mem.payments) = 2 /\ Len(mem.api_keys) = 2
    /\ mem.payments[1].id = "stripe_01" /\ mem.payments[1].status = "Failed"
    /\ mem.api_keys[1].id = "key_01" /\ mem.api_keys[1].usage_count = 1
    /\ probe.fn = "upsert_api_key" /\ probe.id = "key_01"

====
